---------------------------- MODULE Spec2Model ----------------------------
(***************************************************************************)
(* A model of beanweb: the ledger reconciliation engine                    *)
(* (crates/beanweb-core/src/lib.rs), the include-resolving parser front    *)
(* (crates/beanweb-parser/src/lib.rs), the account timeline of the         *)
(* presentation layer (crates/beanweb-api/src/routes/accounts/page.rs) and *)
(* the request handlers that share the ledger behind a reader-writer lock  *)
(* (crates/beanweb-api/src/lib.rs, routes/time.rs).                        *)
(*                                                                         *)
(* Amounts are integers counted in thousandths of a currency unit, so that *)
(* the two-decimal formatting the engine applies to padding amounts        *)
(* (format!("{:.2}")) is a real rounding.  Dates are integers: only their  *)
(* order matters to the code.  An optional value (Rust Option, a JSON      *)
(* value that may be null, a string that may be empty) is a sequence of    *)
(* length at most one: None is <<>>, Some(v) is <<v>>.                     *)
(***************************************************************************)
EXTENDS Integers, Sequences, FiniteSets, TLC

VARIABLES
    fs,            \* the source text files on disk: path -> content or a failure
    entry,         \* Ledger.entry: the path last loaded ("" after Ledger::new)
    directives,    \* Ledger.directives: the stored directive list
    data,          \* Ledger.data: accounts, transactions, commodities, balances, pads
    time_context,  \* Ledger.time_context
    lock,          \* AppState.ledger, the tokio RwLock: [writer, readers]
    pc,            \* each request handler's position
    local,         \* each request handler's local values
    stable,        \* history: Ledger.data as it was when the write lock was last free
    outcome,       \* history: how the last load/reload call returned
    input,         \* the input a pure-function specification draws
    result         \* what a pure-function specification computed from it

vars == <<fs, entry, directives, data, time_context, lock, pc, local, stable,
          outcome, input, result>>

None == <<>>
Some(v) == <<v>>
IsSome(o) == o # <<>>
Unwrap(o) == o[1]

-----------------------------------------------------------------------------
(* Bounds of the model *)

\* The longest directive list a specification draws as input.
MaxDirs == 3
\* Dates are 1..MaxDate.
MaxDate == 3
\* Concurrent read-only request handlers.
NumReaders == 2

Dates == 1..MaxDate

-----------------------------------------------------------------------------
(* Sequences *)

RECURSIVE SumSeq(_)
SumSeq(s) == IF s = <<>> THEN 0 ELSE Head(s) + SumSeq(Tail(s))

Range(s) == {s[i] : i \in 1..Len(s)}

\* All sequences over S of length at most n.
SeqsUpTo(S, n) == UNION {[1..k -> S] : k \in 0..n}

\* Iterator::find / position over a sequence of truth values (the predicate applied
\* to each element): the least index holding TRUE, 0 if none.
FirstIndex(hits) ==
    IF \E i \in 1..Len(hits) : hits[i]
    THEN CHOOSE i \in 1..Len(hits) : hits[i] /\ \A j \in 1..(i - 1) : ~hits[j]
    ELSE 0

\* slice::sort_by on an integer key is a stable sort: equal keys keep their order.
\* Elements are <<key, item>> pairs.
RECURSIVE InsertStable(_, _)
InsertStable(s, x) ==
    IF s = <<>> THEN <<x>>
    ELSE IF Head(s)[1] <= x[1] THEN <<Head(s)>> \o InsertStable(Tail(s), x)
    ELSE <<x>> \o s

RECURSIVE SortStable(_)
SortStable(s) ==
    IF s = <<>> THEN <<>>
    ELSE InsertStable(SortStable(SubSeq(s, 1, Len(s) - 1)), s[Len(s)])

RECURSIVE Reverse(_)
Reverse(s) == IF s = <<>> THEN <<>> ELSE Reverse(Tail(s)) \o <<Head(s)>>

-----------------------------------------------------------------------------
(* The directive model: what the parser hands to the engine *)

AssetsX == "Assets:X"
AssetsY == "Assets:Y"
IncomeGift == "Income:Gift"
ExpensesFood == "Expenses:Food"
EquityOpen == "Equity:Open"

\* SimpleBeancountParser::parse_account_name: the type is the leading component.
ParseAccountType(name) ==
    CASE name \in {AssetsX, AssetsY} -> "Assets"
      [] name = IncomeGift -> "Income"
      [] name = ExpensesFood -> "Expenses"
      [] name = EquityOpen -> "Equity"
      [] OTHER -> "Assets"

\* str::starts_with("Income:") || str::starts_with("Expenses:")
IsIncomeOrExpenseName(name) == name \in {IncomeGift, ExpensesFood}

Open(a, d) ==
    [kind |-> "open", date |-> d, account |-> a, currencies |-> <<"CNY">>]
Close(a, d) == [kind |-> "close", date |-> d, account |-> a]
Balance(a, d, amt) ==
    [kind |-> "balance", date |-> d, account |-> a, amount |-> amt, currency |-> "CNY"]
Pad(a, p, d) == [kind |-> "pad", date |-> d, account |-> a, pad |-> p]
Include(path) == [kind |-> "include", path |-> path]
Comment == [kind |-> "comment"]

\* A parser posting: amount is None or Some([amount, currency]); price likewise.
PPosting(a, amt, price) == [account |-> a, amount |-> amt, price |-> price]
Amt(n, c) == Some([amount |-> n, currency |-> c])
\* A parser transaction; time is the value of its "time" metadata, if any.
Txn(d, narration, time, postings) ==
    [kind |-> "txn", date |-> d, flag |-> "*", payee |-> "", narration |-> narration,
     time |-> time, postings |-> postings]

\* SpannedDirective: the directive, its 1-indexed start line and its source file.
Spanned(d, line, source) == [data |-> d, span |-> line, source |-> source]

\* SimpleBeancountParser::parse_with_source: one directive per text block, each
\* tagged with its line and the file it came from.
ParseWithSource(content, source) ==
    [i \in 1..Len(content) |-> Spanned(content[i], i, source)]

-----------------------------------------------------------------------------
(* Ledger::convert_transaction and the identifier *)

\* DefaultHasher::new(): SipHash with both keys zero, the same in every call.
HasherKeys == <<0, 0>>

\* A variant of the hash whose hasher is keyed anew by every load (the key is
\* the number of transactions the load found in place).
ShortHashMutKeyedPerLoad(content) == <<<<Len(stable.data.transactions), 0>>, content>>

\* short_hash: the hash of the canonical text under the hasher's keys, taken to
\* be free of collisions.
ShortHash(content) == <<HasherKeys, content>>

\* generate_txn_id: "txn-<source>:<line>:<hash>"
GenerateTxnId(source, line, content) ==
    [prefix |-> "txn", source |-> source, num |-> line, hash |-> ShortHash(content)]

\* Ledger::build_transaction_content: date, flag, payee, narration and, for each
\* posting, the account and (if present) the amount and currency.
BuildTransactionContent(txn) ==
    <<<<txn.date>>, <<txn.flag, txn.payee>>, txn.narration,
      [i \in 1..Len(txn.postings) |->
          [account |-> txn.postings[i].account, amount |-> txn.postings[i].amount]]>>

\* The posting of the core model.  Posting.amount is the string
\* "<amount> <currency>[ @ <price> <currency>]", or "" when the amount is omitted;
\* it is kept as its parts: None, or Some([units, price]).
ConvertPosting(p) ==
    [account |-> p.account,
     amount |-> IF IsSome(p.amount)
                THEN Some([units |-> Unwrap(p.amount).amount, price |-> p.price])
                ELSE None,
     currency |-> IF IsSome(p.amount) THEN Unwrap(p.amount).currency ELSE ""]

ConvertTransaction(txn, line, source) ==
    [id |-> GenerateTxnId(source, line, BuildTransactionContent(txn)),
     date |-> txn.date,
     time |-> txn.time,
     payee |-> txn.payee,
     narration |-> txn.narration,
     postings |-> [i \in 1..Len(txn.postings) |-> ConvertPosting(txn.postings[i])],
     tags |-> <<>>,
     source |-> Some(source),
     line |-> Some(line)]

-----------------------------------------------------------------------------
(* Ledger::process_result *)

EmptyData ==
    [accounts |-> <<>>, transactions |-> <<>>, commodities |-> <<>>,
     balances |-> <<>>, pads |-> <<>>]

\* A variant of the clearing that leaves the transactions of the previous load.
ClearDataMutKeepTransactions(d) ==
    [d EXCEPT !.accounts = <<>>, !.commodities = <<>>, !.balances = <<>>, !.pads = <<>>]

\* "Clear existing data": the five Vec::clear calls.
ClearData(d) ==
    [d EXCEPT !.accounts = <<>>, !.transactions = <<>>, !.commodities = <<>>,
              !.balances = <<>>, !.pads = <<>>]

\* First pass: the Pad directives, in directive order.
CollectPads(dirs) ==
    LET pads == SelectSeq(dirs, LAMBDA sd : sd.data.kind = "pad")
    IN  [i \in 1..Len(pads) |-> pads[i].data]

NewAccount(open) ==
    [name |-> open.account,
     account_type |-> ParseAccountType(open.account),
     status |-> "Open",
     balance |-> None,
     currency |-> IF open.currencies = <<>> THEN None ELSE Some(Head(open.currencies)),
     open_date |-> Some(open.date),
     close_date |-> None]

Snapshot(b) == [amount |-> b.amount, currency |-> b.currency, date |-> b.date]

\* The Balance arm's update of the account: the snapshot is replaced when there is
\* none yet or when the new date is strictly later than the stored one.
UpdateSnapshot(acc, b) ==
    IF ~IsSome(acc.balance) THEN [acc EXCEPT !.balance = Some(Snapshot(b))]
    ELSE IF b.date > Unwrap(acc.balance).date
         THEN [acc EXCEPT !.balance = Some(Snapshot(b))]
         ELSE acc

BalanceEntry(b) ==
    [account |-> b.account, amount |-> b.amount, currency |-> b.currency,
     date |-> b.date]

\* accounts.iter_mut().find(|a| a.name == name): the first account of that name.
FindAccount(accounts, name) == FirstIndex([i \in 1..Len(accounts) |-> accounts[i].name = name])

\* A variant of the second pass's step that records a Balance directive in the
\* history only when it replaced the account's snapshot.
ProcessDirectiveMutHistoryFollowsSnapshot(st, sd) ==
    LET dir == sd.data
        d == st.d
    IN  CASE dir.kind = "open" ->
               IF dir.account \notin st.seen
               THEN [d |-> [d EXCEPT !.accounts = Append(@, NewAccount(dir))],
                     seen |-> st.seen \cup {dir.account}]
               ELSE st
          [] dir.kind = "close" ->
               LET i == FindAccount(d.accounts, dir.account)
               IN  IF i = 0 THEN st
                   ELSE [st EXCEPT !.d.accounts[i].status = "Closed",
                                   !.d.accounts[i].close_date = Some(dir.date)]
          [] dir.kind = "txn" ->
               [st EXCEPT !.d.transactions =
                   Append(@, ConvertTransaction(dir, sd.span, sd.source))]
          [] dir.kind = "balance" ->
               LET i == FindAccount(d.accounts, dir.account)
                   upd == IF i = 0 THEN d
                          ELSE [d EXCEPT !.accounts[i] = UpdateSnapshot(@, dir)]
               IN  IF upd = d THEN st
                   ELSE [st EXCEPT !.d = [upd EXCEPT !.balances = Append(@, BalanceEntry(dir))]]
          [] OTHER -> st

\* A variant of the second pass's step in which a later Open directive of a known
\* account replaces the account.
ProcessDirectiveMutLastOpenWins(st, sd) ==
    LET dir == sd.data
        d == st.d
    IN  CASE dir.kind = "open" ->
               IF dir.account \notin st.seen
               THEN [d |-> [d EXCEPT !.accounts = Append(@, NewAccount(dir))],
                     seen |-> st.seen \cup {dir.account}]
               ELSE [st EXCEPT !.d.accounts[FindAccount(d.accounts, dir.account)] =
                                   NewAccount(dir)]
          [] dir.kind = "close" ->
               LET i == FindAccount(d.accounts, dir.account)
               IN  IF i = 0 THEN st
                   ELSE [st EXCEPT !.d.accounts[i].status = "Closed",
                                   !.d.accounts[i].close_date = Some(dir.date)]
          [] dir.kind = "txn" ->
               [st EXCEPT !.d.transactions =
                   Append(@, ConvertTransaction(dir, sd.span, sd.source))]
          [] dir.kind = "balance" ->
               LET i == FindAccount(d.accounts, dir.account)
                   upd == IF i = 0 THEN d
                          ELSE [d EXCEPT !.accounts[i] = UpdateSnapshot(@, dir)]
               IN  [st EXCEPT !.d = [upd EXCEPT !.balances = Append(@, BalanceEntry(dir))]]
          [] OTHER -> st

\* One iteration of the second pass over a state [d: LedgerData, seen: set of names].
ProcessDirective(st, sd) ==
    LET dir == sd.data
        d == st.d
    IN  CASE dir.kind = "open" ->
               IF dir.account \notin st.seen
               THEN [d |-> [d EXCEPT !.accounts = Append(@, NewAccount(dir))],
                     seen |-> st.seen \cup {dir.account}]
               ELSE st
          [] dir.kind = "close" ->
               LET i == FindAccount(d.accounts, dir.account)
               IN  IF i = 0 THEN st
                   ELSE [st EXCEPT !.d.accounts[i].status = "Closed",
                                   !.d.accounts[i].close_date = Some(dir.date)]
          [] dir.kind = "txn" ->
               [st EXCEPT !.d.transactions =
                   Append(@, ConvertTransaction(dir, sd.span, sd.source))]
          [] dir.kind = "balance" ->
               LET i == FindAccount(d.accounts, dir.account)
                   upd == IF i = 0 THEN d
                          ELSE [d EXCEPT !.accounts[i] = UpdateSnapshot(@, dir)]
               IN  [st EXCEPT !.d = [upd EXCEPT !.balances = Append(@, BalanceEntry(dir))]]
          [] OTHER -> st

RECURSIVE SecondPassFrom(_, _)
SecondPassFrom(st, dirs) ==
    IF dirs = <<>> THEN st
    ELSE SecondPassFrom(ProcessDirective(st, Head(dirs)), Tail(dirs))

SecondPass(d, dirs) == SecondPassFrom([d |-> d, seen |-> {}], dirs).d

-----------------------------------------------------------------------------
(* The third pass: one synthetic transaction per Pad directive *)

Abs(x) == IF x < 0 THEN -x ELSE x

\* format!("{:.2}", x) read back as a number: x, in thousandths, rounded to the
\* nearest hundredth.  The rounding acts on the magnitude, so it commutes with
\* negation.
FormatF2(x) ==
    LET r == ((Abs(x) + 5) \div 10) * 10
    IN  IF x < 0 THEN -r ELSE r

\* posting.amount.split_whitespace().next().parse::<f64>(): the leading number of
\* the amount string, nothing when the string is empty.
LeadingNumber(posting) ==
    IF IsSome(posting.amount) THEN Unwrap(posting.amount).units ELSE 0

\* The balances of one account, oldest first (Vec::sort_by on the date, stable).
SourceBalances(balances, account) ==
    LET own == SelectSeq(balances, LAMBDA b : b.account = account)
        sorted == SortStable([i \in 1..Len(own) |-> <<own[i].date, own[i]>>])
    IN  [i \in 1..Len(sorted) |-> sorted[i][2]]

\* "Sum of all non-Pad transactions for the source account" strictly between the
\* two balance dates, skipping every transaction that posts to the pad's second
\* account.
OtherTxSum(transactions, source_account, pad_name, prev_date, curr_date) ==
    LET counted(tx) ==
            /\ tx.date > prev_date
            /\ tx.date < curr_date
            /\ ~\E i \in 1..Len(tx.postings) : tx.postings[i].account = pad_name
        own(tx) == SelectSeq(tx.postings, LAMBDA p : p.account = source_account)
        txsum(tx) == SumSeq([i \in 1..Len(own(tx)) |-> LeadingNumber(own(tx)[i])])
    IN  SumSeq([i \in 1..Len(transactions) |->
                   IF counted(transactions[i]) THEN txsum(transactions[i]) ELSE 0])

\* A variant of the Income/Expenses branch that takes the asserted amount itself
\* for the difference, ignoring the preceding balance.
PadDifferenceMutNoPrevious(d, pad) ==
    LET sb == SourceBalances(d.balances, pad.account)
        idx == FirstIndex([i \in 1..Len(sb) |-> sb[i].date >= pad.date])
    IN  IF idx = 0 THEN [amount |-> None, currency |-> ""]
        ELSE IF idx = 1 THEN [amount |-> None, currency |-> sb[idx].currency]
        ELSE [amount |-> Some(FormatF2(-sb[idx].amount)), currency |-> sb[idx].currency]

\* The Income/Expenses branch: Some([amount, currency]) of the target posting, or
\* [amount |-> None, ...] when only the currency was found.
PadDifference(d, pad) ==
    LET sb == SourceBalances(d.balances, pad.account)
        idx == FirstIndex([i \in 1..Len(sb) |-> sb[i].date >= pad.date])
    IN  IF idx = 0 THEN [amount |-> None, currency |-> ""]
        ELSE IF idx = 1 THEN [amount |-> None, currency |-> sb[idx].currency]
        ELSE LET balance_change == sb[idx].amount - sb[idx - 1].amount
                 \* source_balances.iter().find(|d| d < pad_date): the first one
                 prev_balance_date ==
                     sb[FirstIndex([i \in 1..Len(sb) |-> sb[i].date < pad.date])].date
                 curr_balance_date == sb[idx].date
                 other_tx_sum ==
                     OtherTxSum(d.transactions, pad.account, pad.pad,
                                prev_balance_date, curr_balance_date)
                 pad_difference == balance_change - other_tx_sum
             IN  [amount |-> Some(FormatF2(-pad_difference)),
                  currency |-> sb[idx].currency]

\* The other branch: the first balance of the account, in directive order, dated
\* on or after the pad.
PadDirect(d, pad) ==
    LET i == FirstIndex([k \in 1..Len(d.balances) |->
                            /\ d.balances[k].account = pad.account
                            /\ d.balances[k].date >= pad.date])
    IN  IF i = 0 THEN [amount |-> None, currency |-> ""]
        ELSE [amount |-> Some(d.balances[i].amount),
              currency |-> IF d.balances[i].currency = "" THEN "CNY"
                           ELSE d.balances[i].currency]

\* "If still empty, try account balance", then "0.00" "CNY".
PadFallback(d, pad, found) ==
    IF IsSome(found.amount) THEN found
    ELSE LET i == FindAccount(d.accounts, pad.account)
         IN  IF i # 0 /\ IsSome(d.accounts[i].balance)
             THEN [amount |-> Some(Unwrap(d.accounts[i].balance).amount),
                   currency |-> Unwrap(d.accounts[i].balance).currency]
             ELSE [amount |-> Some(0), currency |-> "CNY"]

\* target_amount and target_currency of a Pad directive.
PadTarget(d, pad) ==
    PadFallback(d, pad,
                IF IsIncomeOrExpenseName(pad.pad) THEN PadDifference(d, pad)
                ELSE PadDirect(d, pad))

PadPosting(account, units, currency) ==
    [account |-> account, amount |-> Some([units |-> units, price |-> None]),
     currency |-> currency]

\* A variant of the synthetic transaction in which the first posting is not negated.
PadTransactionMutNoNegate(d, pad) ==
    LET t == PadTarget(d, pad)
        target_num == Unwrap(t.amount)
    IN  [id |-> [prefix |-> "pad", source |-> "", num |-> pad.date, hash |-> <<>>],
         date |-> pad.date, time |-> None, payee |-> "",
         narration |-> <<pad.account, " from ", pad.pad>>,
         postings |-> <<PadPosting(pad.account, FormatF2(target_num), t.currency),
                        PadPosting(pad.pad, FormatF2(target_num), t.currency)>>,
         tags |-> <<"pad">>, source |-> None, line |-> None]

\* The synthetic transaction: the first-named account carries -target_num, the
\* second-named account target_num, both formatted to two decimals.
PadTransaction(d, pad) ==
    LET t == PadTarget(d, pad)
        target_num == Unwrap(t.amount)
    IN  [id |-> [prefix |-> "pad", source |-> "", num |-> pad.date, hash |-> <<>>],
         date |-> pad.date, time |-> None, payee |-> "",
         narration |-> <<pad.account, " from ", pad.pad>>,
         postings |-> <<PadPosting(pad.account, FormatF2(-target_num), t.currency),
                        PadPosting(pad.pad, FormatF2(target_num), t.currency)>>,
         tags |-> <<"pad">>, source |-> None, line |-> None]

PadEntry(pad) ==
    [account |-> pad.account, source_account |-> pad.pad, date |-> pad.date]

\* One iteration of the third pass.
ProcessPad(d, pad) ==
    LET withEntry == [d EXCEPT !.pads = Append(@, PadEntry(pad))]
    IN  [withEntry EXCEPT !.transactions = Append(@, PadTransaction(withEntry, pad))]

RECURSIVE ThirdPass(_, _)
ThirdPass(d, pads) ==
    IF pads = <<>> THEN d
    ELSE ThirdPass(ProcessPad(d, Head(pads)), Tail(pads))

\* process_result as a whole: clear, then rebuild from the stored directives.
ProcessResult(d, dirs) ==
    ThirdPass(SecondPass(ClearData(d), dirs), CollectPads(dirs))

-----------------------------------------------------------------------------
(* Ledger::calculate_account_balances *)

\* Ledger::parse_amount on a posting's amount string: its leading number.
ParseAmount(amount) == IF IsSome(amount) THEN Unwrap(amount).units ELSE 0

\* Ledger::parse_balance on Account.balance: the snapshot's amount, and 0.0 for a
\* JSON null (the final else arm).
ParseBalance(balance) == IF IsSome(balance) THEN Unwrap(balance).amount ELSE 0

\* The sum of the explicit amounts of a transaction (the known_total loop).
KnownTotal(tx) ==
    SumSeq([i \in 1..Len(tx.postings) |-> ParseAmount(tx.postings[i].amount)])

\* Ledger::calculate_posting_amount: the amount of the first posting naming the
\* account, or, when that one is empty, minus the sum of the explicit amounts.
CalculatePostingAmount(tx, account_name) ==
    LET i == FirstIndex([k \in 1..Len(tx.postings) |->
                            tx.postings[k].account = account_name])
    IN  IF i # 0 /\ IsSome(tx.postings[i].amount)
        THEN ParseAmount(tx.postings[i].amount)
        ELSE -KnownTotal(tx)

\* What one transaction adds to an account: the loop over its postings calls
\* calculate_posting_amount once per posting that names the account.
TxContribution(tx, account_name) ==
    SumSeq([j \in 1..Len(tx.postings) |->
               IF tx.postings[j].account = account_name
               THEN CalculatePostingAmount(tx, account_name) ELSE 0])

PostingAccounts(transactions) ==
    UNION {{tx.postings[j].account : j \in 1..Len(tx.postings)} :
              tx \in Range(transactions)}

AccountNames(d) == {a.name : a \in Range(d.accounts)}

\* The HashMap returned, as a function from account name to balance.
CalculateAccountBalances(d) ==
    LET snapshotOf(name) == d.accounts[FindAccount(d.accounts, name)].balance
        hasDate(name) == name \in AccountNames(d) /\ IsSome(snapshotOf(name))
        initial(name) ==
            IF name \in AccountNames(d) THEN ParseBalance(snapshotOf(name)) ELSE 0
        counts(tx, name) ==
            IF hasDate(name) THEN tx.date >= Unwrap(snapshotOf(name)).date ELSE TRUE
    IN  [name \in AccountNames(d) \cup PostingAccounts(d.transactions) |->
            initial(name)
            + SumSeq([i \in 1..Len(d.transactions) |->
                         IF counts(d.transactions[i], name)
                         THEN TxContribution(d.transactions[i], name) ELSE 0])]

-----------------------------------------------------------------------------
(* The account timeline of the accounts pages *)

\* The latest time of day a transaction's metadata carries; 0 is "00:00:00".
MaxTime == 1

\* Transaction::has_time: a time that is neither empty nor midnight.
HasTime(tx) == IsSome(tx.time) /\ Unwrap(tx.time) # 0

\* Transaction::involves_account
InvolvesAccount(tx, account_name) ==
    \E j \in 1..Len(tx.postings) : tx.postings[j].account = account_name

TransactionsByAccount(d, account_name) ==
    SelectSeq(d.transactions, LAMBDA t : InvolvesAccount(t, account_name))

BalancesByAccount(d, account_name) ==
    SelectSeq(d.balances, LAMBDA b : b.account = account_name)

\* Posting::amount_value: the leading number of the amount string, if any.
AmountValue(posting) ==
    IF IsSome(posting.amount) THEN Some(Unwrap(posting.amount).units) ELSE None

\* Posting::price_info: the number and currency after '@', if any.
PriceInfo(posting) ==
    IF IsSome(posting.amount) THEN Unwrap(posting.amount).price ELSE None

\* Posting::total_value: |units| * price when a price is given and the posting's
\* currency differs from the operating currency or from the price's currency;
\* the units otherwise.  Amounts and prices are in thousandths.
TotalValue(posting, operating_currency) ==
    IF ~IsSome(AmountValue(posting)) THEN 0
    ELSE LET amount == Unwrap(AmountValue(posting))
             price == PriceInfo(posting)
         IN  IF /\ IsSome(price)
                /\ \/ posting.currency # operating_currency
                   \/ posting.currency # Unwrap(price).currency
             THEN (Abs(amount) * Unwrap(price).amount) \div 1000
             ELSE amount

\* get_posting_amount_for_account: the sum of the account's explicit postings, or,
\* when it has none, minus the sum of all explicit postings of the transaction.
GetPostingAmountForAccount(tx, account_name) ==
    LET explicit == SelectSeq(tx.postings,
                        LAMBDA p : p.account = account_name /\ IsSome(p.amount))
        total(ps) == SumSeq([i \in 1..Len(ps) |-> TotalValue(ps[i], "CNY")])
    IN  IF explicit # <<>> THEN total(explicit)
        ELSE -total(SelectSeq(tx.postings, LAMBDA p : IsSome(p.amount)))

\* TimelineItem.  origin is not a field of the code's item: it records the event
\* the item was built from, as <<list, index>>, for the properties stated below.
TimelineItem(date, time, item_type, posting_amount, running_balance, origin) ==
    [date |-> date, time |-> time, item_type |-> item_type,
     posting_amount |-> posting_amount, running_balance |-> running_balance,
     origin |-> origin]

\* The item of the i-th transaction; time is 0 for the empty string.
TransactionItem(txs, i, item_type, account_name) ==
    TimelineItem(txs[i].date, IF HasTime(txs[i]) THEN Unwrap(txs[i].time) ELSE 0,
                 item_type, GetPostingAmountForAccount(txs[i], account_name), 0,
                 <<"transaction", i>>)

\* The item of the i-th balance entry.
BalanceItem(balances, i) ==
    TimelineItem(balances[i].date, 0, "Balance", balances[i].amount,
                 balances[i].amount, <<"balance", i>>)

\* The comparator of timeline.sort_by: the date, then the time string.
TimelineKey(item) == item.date * (MaxTime + 1) + item.time

SortTimeline(timeline) ==
    LET sorted == SortStable([i \in 1..Len(timeline) |->
                                 <<TimelineKey(timeline[i]), timeline[i]>>])
    IN  [i \in 1..Len(sorted) |-> sorted[i][2]]

\* A variant of the forward pass's match in which a Balance item adds its amount.
AdvanceMutBalanceAdds(running_balance, item) ==
    running_balance + item.posting_amount

\* The match of the forward pass: a Balance item sets the running balance, a Pad or
\* Transaction item adds to it.
Advance(running_balance, item) ==
    IF item.item_type = "Balance" THEN item.posting_amount
    ELSE running_balance + item.posting_amount

\* "Calculate running balance in forward order", from running_balance on.
RECURSIVE ForwardPass(_, _)
ForwardPass(timeline, running_balance) ==
    IF timeline = <<>> THEN <<>>
    ELSE LET next == Advance(running_balance, Head(timeline))
         IN  <<[Head(timeline) EXCEPT !.running_balance = next]>>
             \o ForwardPass(Tail(timeline), next)

\* Iterator::skip(offset).take(limit)
SkipTake(s, offset, limit) ==
    SubSeq(s, offset + 1, IF offset + limit < Len(s) THEN offset + limit ELSE Len(s))

\* render_account_transactions_paginated, up to the HTML: the rows shown.  The
\* transactions are pushed first, then the balance entries.
RenderAccountTransactionsPaginated(account_transactions, balances, account_name, limit, offset) ==
    LET txItems == [i \in 1..Len(account_transactions) |->
                       TransactionItem(account_transactions, i,
                           IF " from " \in Range(account_transactions[i].narration)
                           THEN "Pad" ELSE "Transaction",
                           account_name)]
        balanceItems == [i \in 1..Len(balances) |-> BalanceItem(balances, i)]
        timeline == ForwardPass(SortTimeline(SortTimeline(txItems \o balanceItems)), 0)
    IN  SkipTake(Reverse(timeline), offset, limit)

\* calculate_correct_balance: the running balance after the last item.  The balance
\* entries are pushed first, then the transactions.
CalculateCorrectBalance(account_transactions, balances, account_name) ==
    LET balanceItems == [i \in 1..Len(balances) |-> BalanceItem(balances, i)]
        txItems == [i \in 1..Len(account_transactions) |->
                       TransactionItem(account_transactions, i, "Transaction",
                                       account_name)]
        timeline == ForwardPass(SortTimeline(balanceItems \o txItems), 0)
    IN  IF timeline = <<>> THEN 0 ELSE timeline[Len(timeline)].running_balance

\* The currencies calculate_correct_balance collects, and the primary currencies
\* it can return: CNY if collected, otherwise whichever the HashSet yields first.
CollectedCurrencies(account_transactions, balances, account_name, default_currency) ==
    {default_currency}
    \cup {b.currency : b \in {x \in Range(balances) : x.currency # ""}}
    \cup UNION {{tx.postings[j].currency :
                    j \in {k \in 1..Len(tx.postings) :
                              /\ tx.postings[k].account = account_name
                              /\ tx.postings[k].currency # ""}} :
                tx \in Range(account_transactions)}

PrimaryCurrencies(account_transactions, balances, account_name, default_currency) ==
    LET currencies == CollectedCurrencies(account_transactions, balances,
                                          account_name, default_currency)
    IN  IF account_transactions = <<>> /\ balances = <<>> THEN {default_currency}
        ELSE IF "CNY" \in currencies THEN {"CNY"} ELSE currencies

-----------------------------------------------------------------------------
(* SpecProcess: process_result applied to every short directive list *)

MainPath == "main.bean"

\* The amounts of the Balance directives drawn: 100, 150 and 150.004.
BalanceAmounts == {100000, 150000, 150004}

\* The posting lists of the transactions drawn.
PostingShapes ==
    {<<PPosting(AssetsX, Amt(-20000, "CNY"), None), PPosting(ExpensesFood, None, None)>>,
     <<PPosting(AssetsX, Amt(5000, "CNY"), None),
       PPosting(IncomeGift, Amt(-5000, "CNY"), None)>>,
     <<PPosting(AssetsX, Amt(10000, "CNY"), None),
       PPosting(AssetsX, Amt(20000, "CNY"), None),
       PPosting(EquityOpen, None, None)>>,
     <<PPosting(AssetsX, Amt(-10000, "USD"), Amt(7000, "CNY")),
       PPosting(AssetsY, None, None)>>}

DirAlphabet ==
    {Open(AssetsX, 1)}
    \cup {Balance(AssetsX, d, a) : d \in Dates, a \in BalanceAmounts}
    \cup {Pad(AssetsX, p, d) : p \in {IncomeGift, EquityOpen}, d \in Dates}
    \cup {Txn(d, <<"Shop">>, None, ps) : d \in Dates, ps \in PostingShapes}

DirLists == SeqsUpTo(DirAlphabet, MaxDirs)

\* What a call of load or reload can change, recorded when the call begins.
NoSnapshot == [taken |-> FALSE, entry |-> "", directives |-> <<>>, data |-> EmptyData]
TakeSnapshot == [taken |-> TRUE, entry |-> entry, directives |-> directives, data |-> data]

NoHandlers == [h \in {} |-> None]
FreeLock == [writer |-> None, readers |-> {}]
AllTime == [range |-> "All", custom_start |-> None, custom_end |-> None]

InitProcess ==
    /\ input \in [dirs : DirLists]
    /\ result = None
    /\ fs = <<>>
    /\ entry = ""
    /\ directives = <<>>
    /\ data = EmptyData
    /\ time_context = AllTime
    /\ lock = FreeLock
    /\ pc = NoHandlers
    /\ local = NoHandlers
    /\ stable = NoSnapshot
    /\ outcome = None

\* Ledger::load on a file that parses to the drawn list.
LoadInput ==
    /\ outcome = None
    /\ directives' = ParseWithSource(input.dirs, MainPath)
    /\ entry' = MainPath
    /\ data' = ProcessResult(data, directives')
    /\ outcome' = Some("ok")
    /\ UNCHANGED <<fs, time_context, lock, pc, local, stable, input, result>>

\* calculate_account_balances on the loaded ledger.
QueryBalances ==
    /\ outcome = Some("ok")
    /\ result = None
    /\ result' = Some(CalculateAccountBalances(data))
    /\ UNCHANGED <<fs, entry, directives, data, time_context, lock, pc, local,
                   stable, outcome, input>>

NextProcess == LoadInput \/ QueryBalances

SpecProcess == InitProcess /\ [][NextProcess]_vars

-----------------------------------------------------------------------------
(* SpecTimeline: the account pages on every short ledger *)

\* The value of a transaction's time metadata: none, or a time of day.
Times == {None} \cup {Some(t) : t \in 0..MaxTime}

Spend == <<PPosting(AssetsX, Amt(-20000, "CNY"), None), PPosting(ExpensesFood, None, None)>>
Gift == <<PPosting(AssetsX, Amt(5000, "CNY"), None), PPosting(IncomeGift, Amt(-5000, "CNY"), None)>>
Exchange == <<PPosting(AssetsX, Amt(-10000, "USD"), Amt(7000, "CNY")), PPosting(AssetsY, None, None)>>

TimelineAlphabet ==
    {Open(AssetsX, 1)}
    \cup {Balance(AssetsX, d, 100000) : d \in Dates}
    \cup {Pad(AssetsX, EquityOpen, d) : d \in Dates}
    \cup {Txn(d, <<"Shop">>, t, Spend) : d \in Dates, t \in Times}
    \cup {Txn(d, <<"Shop">>, None, ps) : d \in Dates, ps \in {Gift, Exchange}}

\* The accounts whose pages are requested, and the requests' (limit, offset, q).
ViewAccounts == {AssetsX, AssetsY}
DefaultLimit == 50
ListParams ==
    {[limit |-> DefaultLimit, offset |-> 0, q |-> None],
     [limit |-> 2, offset |-> 1, q |-> None],
     [limit |-> DefaultLimit, offset |-> 0, q |-> Some("Shop")]}

InitTimeline ==
    /\ input \in [dirs : SeqsUpTo(TimelineAlphabet, MaxDirs)]
    /\ result = None
    /\ fs = <<>>
    /\ entry = ""
    /\ directives = <<>>
    /\ data = EmptyData
    /\ time_context = AllTime
    /\ lock = FreeLock
    /\ pc = NoHandlers
    /\ local = NoHandlers
    /\ stable = NoSnapshot
    /\ outcome = None

\* htmx_account_transactions_list: the account's transactions, narrowed by the
\* search term when there is one, and its balance entries, rendered as rows.
AccountTransactionsList ==
    /\ outcome = Some("ok")
    /\ result = None
    /\ \E account_name \in ViewAccounts, params \in ListParams :
          LET transactions == TransactionsByAccount(data, account_name)
              filtered_transactions ==
                  IF IsSome(params.q)
                  THEN SelectSeq(transactions,
                                 LAMBDA tx : Unwrap(params.q) \in Range(tx.narration))
                  ELSE transactions
          IN  result' = Some([handler |-> "list", account |-> account_name,
                              params |-> params,
                              rows |-> RenderAccountTransactionsPaginated(
                                           filtered_transactions,
                                           BalancesByAccount(data, account_name),
                                           account_name, params.limit, params.offset),
                              balance |-> None, currency |-> None])
    /\ UNCHANGED <<fs, entry, directives, data, time_context, lock, pc, local,
                   stable, outcome, input>>

\* page_account_detail: the balance shown for an account that exists; the page of
\* an unknown account shows none.
AccountDetail ==
    /\ outcome = Some("ok")
    /\ result = None
    /\ \E account_name \in ViewAccounts :
          LET i == FindAccount(data.accounts, account_name)
              transactions == TransactionsByAccount(data, account_name)
              balances == BalancesByAccount(data, account_name)
              default_currency ==
                  IF i # 0 /\ IsSome(data.accounts[i].currency)
                  THEN Unwrap(data.accounts[i].currency) ELSE "CNY"
          IN  IF i = 0
              THEN result' = Some([handler |-> "detail", account |-> account_name,
                                   params |-> None, rows |-> <<>>,
                                   balance |-> None, currency |-> None])
              ELSE \E currency \in PrimaryCurrencies(transactions, balances,
                                                     account_name, default_currency) :
                      result' = Some([handler |-> "detail", account |-> account_name,
                                      params |-> None, rows |-> <<>>,
                                      balance |-> Some(FormatF2(CalculateCorrectBalance(
                                                      transactions, balances, account_name))),
                                      currency |-> Some(currency)])
    /\ UNCHANGED <<fs, entry, directives, data, time_context, lock, pc, local,
                   stable, outcome, input>>

NextTimeline == LoadInput \/ AccountTransactionsList \/ AccountDetail

SpecTimeline == InitTimeline /\ [][NextTimeline]_vars

-----------------------------------------------------------------------------
(* SpecAccounts: account lifecycles, balance history and the plain queries *)

\* An Open directive with the currencies it lists.
OpenWith(a, d, cs) == [kind |-> "open", date |-> d, account |-> a, currencies |-> cs]

\* Transaction::is_balanced: "Simple check", true of any transaction with postings.
IsBalanced(tx) == tx.postings # <<>>

\* Posting lists the parser accepts: an omitted amount, explicit amounts that
\* cancel, explicit amounts that do not cancel, two omitted amounts.
LifecycleShapes ==
    {<<PPosting(AssetsX, Amt(-20000, "CNY"), None), PPosting(ExpensesFood, None, None)>>,
     <<PPosting(AssetsX, Amt(5000, "CNY"), None),
       PPosting(IncomeGift, Amt(-5000, "CNY"), None)>>,
     <<PPosting(AssetsX, Amt(10000, "CNY"), None),
       PPosting(ExpensesFood, Amt(5000, "CNY"), None)>>,
     <<PPosting(AssetsX, None, None), PPosting(ExpensesFood, None, None)>>}

\* The currency lists of the Open directives drawn.
OpenCurrencies == {<<"CNY">>, <<"USD", "CNY">>}

AccountsAlphabet ==
    {OpenWith(AssetsX, d, cs) : d \in Dates, cs \in OpenCurrencies}
    \cup {OpenWith(AssetsY, 1, <<>>)}
    \cup {Close(AssetsX, d) : d \in Dates}
    \cup {Balance(AssetsX, d, 100000) : d \in Dates}
    \cup {Txn(1, <<"Shop">>, None, ps) : ps \in LifecycleShapes}

InitAccounts ==
    /\ input \in [dirs : SeqsUpTo(AccountsAlphabet, MaxDirs)]
    /\ result = None
    /\ fs = <<>>
    /\ entry = ""
    /\ directives = <<>>
    /\ data = EmptyData
    /\ time_context = AllTime
    /\ lock = FreeLock
    /\ pc = NoHandlers
    /\ local = NoHandlers
    /\ stable = NoSnapshot
    /\ outcome = None

\* What a query handed back: the method called, its argument, its value, and the
\* error it reported.  The query methods return plain values (Vec, Option, a
\* report struct), never a Result, so the error is always absent.
Answer(method, arg, value) ==
    [method |-> method, arg |-> arg, value |-> value, error |-> None]

\* Ledger::accounts: a copy of the account list.
Accounts(d) == d.accounts

\* Ledger::transaction: the first transaction with the identifier, if any.
TransactionById(d, id) ==
    LET i == FirstIndex([k \in 1..Len(d.transactions) |-> d.transactions[k].id = id])
    IN  IF i = 0 THEN None ELSE Some(d.transactions[i])

\* The identifier asked for: that of the transaction with the first posting
\* list when it stands on line 1 of the entry file.
AskedIds ==
    {GenerateTxnId(MainPath, 1,
        BuildTransactionContent(Txn(1, <<"Shop">>, None,
            <<PPosting(AssetsX, Amt(-20000, "CNY"), None),
              PPosting(ExpensesFood, None, None)>>)))}

QueryAccounts ==
    /\ result' = Some(Answer("accounts", "", Accounts(data)))
    /\ UNCHANGED <<fs, entry, directives, data, time_context, lock, pc, local,
                   stable, outcome, input>>

QueryTransaction ==
    /\ \E id \in AskedIds :
          result' = Some(Answer("transaction", "line 1", TransactionById(data, id)))
    /\ UNCHANGED <<fs, entry, directives, data, time_context, lock, pc, local,
                   stable, outcome, input>>

QueryBalancesByAccount ==
    /\ \E name \in {AssetsX, AssetsY} :
          result' = Some(Answer("balances_by_account", name, BalancesByAccount(data, name)))
    /\ UNCHANGED <<fs, entry, directives, data, time_context, lock, pc, local,
                   stable, outcome, input>>

NextAccounts == LoadInput \/ QueryAccounts \/ QueryTransaction \/ QueryBalancesByAccount

SpecAccounts == InitAccounts /\ [][NextAccounts]_vars

-----------------------------------------------------------------------------
(* The file system and DefaultBeancountParser::parse_file *)

IncPath == "inc.bean"
Paths == {MainPath, IncPath}

\* A path of the file system: absent, present but unreadable, or a readable file.
Missing == [exists |-> FALSE, readable |-> FALSE, content |-> <<>>]
Unreadable == [exists |-> TRUE, readable |-> FALSE, content |-> <<>>]
File(content) == [exists |-> TRUE, readable |-> TRUE, content |-> content]

\* The outcome of a parse: the directives, or an error.
ParseOk(dirs) == [ok |-> TRUE, directives |-> dirs]
ParseErr == [ok |-> FALSE, directives |-> <<>>]

\* parse_file_with_base: the file is read (an I/O error when it is absent or
\* unreadable) and parsed; each include directive is replaced, in place, by the
\* directives of the file it names when that path exists, and dropped when it does
\* not; an error in an included file is the error of the whole parse.
RECURSIVE ParseFileWithBase(_, _)
RECURSIVE ExpandIncludes(_, _)
ExpandIncludes(fsys, all_directives) ==
    IF all_directives = <<>> THEN ParseOk(<<>>)
    ELSE LET directive == Head(all_directives)
             rest == ExpandIncludes(fsys, Tail(all_directives))
             included ==
                 IF directive.data.kind = "include"
                 THEN IF fsys[directive.data.path].exists
                      THEN ParseFileWithBase(fsys, directive.data.path)
                      ELSE ParseOk(<<>>)
                 ELSE ParseOk(<<directive>>)
         IN  IF included.ok /\ rest.ok
             THEN ParseOk(included.directives \o rest.directives)
             ELSE ParseErr

ParseFileWithBase(fsys, path) ==
    IF ~(fsys[path].exists /\ fsys[path].readable) THEN ParseErr
    ELSE ExpandIncludes(fsys, ParseWithSource(fsys[path].content, path))

ParseFile(fsys, path) == ParseFileWithBase(fsys, path)

\* A variant of load that goes on to store whatever the parse returned.
AfterParseMutIgnoreError(parsed) == "store"

\* The "?" of Ledger::load: a parse error returns before anything is stored.
AfterParse(parsed) == IF parsed.ok THEN "store" ELSE "respond"

-----------------------------------------------------------------------------
(* Spec: the server, its lock and its handlers *)

\* The handlers: the startup code of main, the reload endpoint, the set-time
\* endpoint, and NumReaders read-only query handlers.
Main == "main"
Reloader == "reload"
TimeSetter == "settime"
ReaderNames == <<"reader1", "reader2", "reader3", "reader4">>
Readers == {ReaderNames[i] : i \in 1..NumReaders}

\* The contents the ledger files take.
MainContents ==
    {<<Open(AssetsX, 1), Balance(AssetsX, 1, 100000), Txn(2, <<"Shop">>, None, Spend)>>,
     <<Include(IncPath), Pad(AssetsX, EquityOpen, 1), Balance(AssetsX, 2, 150004)>>}
IncContents == {<<Open(AssetsX, 1), Txn(3, <<"Shop">>, None, Gift)>>}

FileStates(path) ==
    {Missing, Unreadable}
    \cup {File(c) : c \in IF path = MainPath THEN MainContents ELSE IncContents}

\* The range parameter of a set-time request, and the context it selects (none for
\* a value the handler does not know).
RangeInputs == {"month", "all", "custom:1,2", "bogus"}
Custom(start, end) ==
    [range |-> "Custom", custom_start |-> Some(start), custom_end |-> Some(end)]
Standard(range) == [range |-> range, custom_start |-> None, custom_end |-> None]

\* A variant of the lock that lets a reader in while a writer holds it.
CanReadMutIgnoreWriter(l) == TRUE

\* tokio::sync::RwLock: a reader enters when no writer holds the lock, a writer
\* when nobody does.
CanRead(l) == ~IsSome(l.writer)
CanWrite(l) == ~IsSome(l.writer) /\ l.readers = {}

\* What a query handler has read so far.
NothingRead == [accounts |-> None, collections |-> None]

Init ==
    /\ fs \in [Paths -> UNION {FileStates(path) : path \in Paths}]
    /\ \A path \in Paths : fs[path] \in FileStates(path)
    /\ entry = ""
    /\ directives = <<>>
    /\ data = EmptyData
    /\ time_context = AllTime
    /\ lock = FreeLock
    /\ pc = [h \in {Main, Reloader, TimeSetter} \cup Readers |->
                IF h = Main THEN "boot" ELSE "idle"]
    /\ local = [h \in {Reloader, TimeSetter} \cup Readers |->
                   IF h = Reloader THEN ParseErr
                   ELSE IF h = TimeSetter THEN "" ELSE NothingRead]
    /\ stable = NoSnapshot
    /\ outcome = None
    /\ input = [dirs |-> <<>>]
    /\ result = None

Serving == pc[Main] = "serving"

\* main: the ledger is loaded, under the write lock and before the server starts,
\* when the main file exists; a failure is logged and the server starts regardless.
BootLoad ==
    /\ pc[Main] = "boot"
    /\ stable' = TakeSnapshot
    /\ IF fs[MainPath].exists
       THEN LET parsed == ParseFile(fs, MainPath)
            IN  /\ outcome' = IF parsed.ok THEN Some("ok") ELSE Some("err")
                /\ IF AfterParse(parsed) = "store"
                   THEN /\ directives' = parsed.directives
                        /\ entry' = MainPath
                        /\ data' = ProcessResult(data, parsed.directives)
                   ELSE UNCHANGED <<directives, entry, data>>
       ELSE UNCHANGED <<directives, entry, data, outcome>>
    /\ pc' = [pc EXCEPT ![Main] = "loaded"]
    /\ UNCHANGED <<fs, time_context, lock, local, input, result>>

StartServer ==
    /\ pc[Main] = "loaded"
    /\ pc' = [pc EXCEPT ![Main] = "serving"]
    /\ stable' = NoSnapshot
    /\ outcome' = None
    /\ UNCHANGED <<fs, entry, directives, data, time_context, lock, local, input, result>>

\* api_reload: state.ledger.write().await
ReloadAcquire ==
    /\ Serving
    /\ pc[Reloader] = "idle"
    /\ CanWrite(lock)
    /\ lock' = [lock EXCEPT !.writer = Some(Reloader)]
    /\ pc' = [pc EXCEPT ![Reloader] = "check"]
    /\ stable' = TakeSnapshot
    /\ UNCHANGED <<fs, entry, directives, data, time_context, local, outcome, input, result>>

\* Ledger::reload: the entry path must exist, otherwise Err(NotLoaded).
ReloadCheck ==
    /\ pc[Reloader] = "check"
    /\ IF entry # "" /\ fs[entry].exists
       THEN /\ pc' = [pc EXCEPT ![Reloader] = "parse"]
            /\ UNCHANGED outcome
       ELSE /\ pc' = [pc EXCEPT ![Reloader] = "respond"]
            /\ outcome' = Some("err")
    /\ UNCHANGED <<fs, entry, directives, data, time_context, lock, local, stable,
                   input, result>>

\* Ledger::load: parse_file(entry)?
ReloadParse ==
    /\ pc[Reloader] = "parse"
    /\ LET parsed == ParseFile(fs, entry)
       IN  /\ local' = [local EXCEPT ![Reloader] = parsed]
           /\ pc' = [pc EXCEPT ![Reloader] = AfterParse(parsed)]
           /\ outcome' = IF parsed.ok THEN outcome ELSE Some("err")
    /\ UNCHANGED <<fs, entry, directives, data, time_context, lock, stable, input, result>>

\* Ledger::load: the parsed directives and the entry path are stored.
ReloadStore ==
    /\ pc[Reloader] = "store"
    /\ directives' = local[Reloader].directives
    /\ entry' = entry
    /\ local' = [local EXCEPT ![Reloader] = ParseErr]
    /\ pc' = [pc EXCEPT ![Reloader] = "clear"]
    /\ UNCHANGED <<fs, data, time_context, lock, stable, outcome, input, result>>

\* process_result: the derived collections are cleared ...
ReloadClear ==
    /\ pc[Reloader] = "clear"
    /\ data' = ClearData(data)
    /\ pc' = [pc EXCEPT ![Reloader] = "second"]
    /\ UNCHANGED <<fs, entry, directives, time_context, lock, local, stable, outcome,
                   input, result>>

\* ... rebuilt from the directives ...
ReloadSecondPass ==
    /\ pc[Reloader] = "second"
    /\ data' = SecondPass(data, directives)
    /\ pc' = [pc EXCEPT ![Reloader] = "third"]
    /\ UNCHANGED <<fs, entry, directives, time_context, lock, local, stable, outcome,
                   input, result>>

\* ... and completed with the synthetic pad transactions; load returns Ok.
ReloadThirdPass ==
    /\ pc[Reloader] = "third"
    /\ data' = ThirdPass(data, CollectPads(directives))
    /\ pc' = [pc EXCEPT ![Reloader] = "respond"]
    /\ outcome' = IF outcome = None THEN Some("ok") ELSE outcome
    /\ UNCHANGED <<fs, entry, directives, time_context, lock, local, stable, input, result>>

\* api_reload answers and its guard is dropped.
ReloadRespond ==
    /\ pc[Reloader] = "respond"
    /\ lock' = [lock EXCEPT !.writer = None]
    /\ pc' = [pc EXCEPT ![Reloader] = "idle"]
    /\ outcome' = None
    /\ stable' = NoSnapshot
    /\ UNCHANGED <<fs, entry, directives, data, time_context, local, input, result>>

\* A read-only query arrives ...
ReadRequest(r) ==
    /\ Serving
    /\ pc[r] = "idle"
    /\ pc' = [pc EXCEPT ![r] = "pending"]
    /\ UNCHANGED <<fs, entry, directives, data, time_context, lock, local, stable,
                   outcome, input, result>>

\* ... state.ledger.read().await ...
ReadAcquire(r) ==
    /\ pc[r] = "pending"
    /\ CanRead(lock)
    /\ lock' = [lock EXCEPT !.readers = @ \cup {r}]
    /\ pc' = [pc EXCEPT ![r] = "reading"]
    /\ UNCHANGED <<fs, entry, directives, data, time_context, local, stable, outcome,
                   input, result>>

\* ... ledger.account(..) / ledger.accounts() ...
ReadAccounts(r) ==
    /\ pc[r] = "reading"
    /\ local' = [local EXCEPT ![r].accounts = Some(data.accounts)]
    /\ pc' = [pc EXCEPT ![r] = "half"]
    /\ UNCHANGED <<fs, entry, directives, data, time_context, lock, stable, outcome,
                   input, result>>

\* ... the transactions, balance entries and pads ...
ReadCollections(r) ==
    /\ pc[r] = "half"
    /\ local' = [local EXCEPT ![r].collections =
                    Some([transactions |-> data.transactions,
                          balances |-> data.balances, pads |-> data.pads])]
    /\ pc' = [pc EXCEPT ![r] = "full"]
    /\ UNCHANGED <<fs, entry, directives, data, time_context, lock, stable, outcome,
                   input, result>>

\* ... and the response is sent; the guard is dropped.
ReadRelease(r) ==
    /\ pc[r] = "full"
    /\ lock' = [lock EXCEPT !.readers = @ \ {r}]
    /\ local' = [local EXCEPT ![r] = NothingRead]
    /\ pc' = [pc EXCEPT ![r] = "idle"]
    /\ UNCHANGED <<fs, entry, directives, data, time_context, stable, outcome, input, result>>

\* api_set_time_range: a request arrives with its range parameter ...
SetTimeRequest ==
    /\ Serving
    /\ pc[TimeSetter] = "idle"
    /\ \E range \in RangeInputs : local' = [local EXCEPT ![TimeSetter] = range]
    /\ pc' = [pc EXCEPT ![TimeSetter] = "pending"]
    /\ UNCHANGED <<fs, entry, directives, data, time_context, lock, stable, outcome,
                   input, result>>

\* ... state.ledger.write().await ...
SetTimeAcquire ==
    /\ pc[TimeSetter] = "pending"
    /\ CanWrite(lock)
    /\ lock' = [lock EXCEPT !.writer = Some(TimeSetter)]
    /\ pc' = [pc EXCEPT ![TimeSetter] = "holding"]
    /\ UNCHANGED <<fs, entry, directives, data, time_context, local, stable, outcome,
                   input, result>>

\* ... set_time_range / set_custom_range for a range it knows, nothing for another;
\* the guard is dropped.
SetTimeApply ==
    /\ pc[TimeSetter] = "holding"
    /\ time_context' =
          CASE local[TimeSetter] = "month" -> Standard("Month")
            [] local[TimeSetter] = "all" -> Standard("All")
            [] local[TimeSetter] = "custom:1,2" -> Custom(1, 2)
            [] OTHER -> time_context
    /\ lock' = [lock EXCEPT !.writer = None]
    /\ local' = [local EXCEPT ![TimeSetter] = ""]
    /\ pc' = [pc EXCEPT ![TimeSetter] = "idle"]
    /\ UNCHANGED <<fs, entry, directives, data, stable, outcome, input, result>>

\* The environment: a ledger file is edited, removed or made unreadable.
WriteFile ==
    /\ \E path \in Paths :
          \E st \in FileStates(path) :
              /\ st # fs[path]
              /\ fs' = [fs EXCEPT ![path] = st]
    /\ UNCHANGED <<entry, directives, data, time_context, lock, pc, local, stable,
                   outcome, input, result>>

Next ==
    \/ BootLoad \/ StartServer
    \/ ReloadAcquire \/ ReloadCheck \/ ReloadParse \/ ReloadStore
    \/ ReloadClear \/ ReloadSecondPass \/ ReloadThirdPass \/ ReloadRespond
    \/ \E r \in Readers : ReadRequest(r) \/ ReadAcquire(r) \/ ReadAccounts(r)
                          \/ ReadCollections(r) \/ ReadRelease(r)
    \/ SetTimeRequest \/ SetTimeAcquire \/ SetTimeApply
    \/ WriteFile

Spec == Init /\ [][Next]_vars

-----------------------------------------------------------------------------
(* SpecReports: the reports under a Time Context *)

\* TimeContext::start_date and end_date for the ranges that do not read the
\* clock: All has neither bound, Custom has the bounds it was given.
StartDate(ctx) == IF ctx.range = "Custom" THEN ctx.custom_start ELSE None
EndDate(ctx) == IF ctx.range = "Custom" THEN ctx.custom_end ELSE None

\* TimeContext::contains: both bounds are inclusive, a missing bound is open.
Contains(ctx, date) ==
    /\ IsSome(StartDate(ctx)) => date >= Unwrap(StartDate(ctx))
    /\ IsSome(EndDate(ctx)) => date <= Unwrap(EndDate(ctx))

\* Transaction::filter_by_time
FilterByTime(tx, ctx) == Contains(ctx, tx.date)

\* The sum of parse_balance over the open accounts of one type.
TotalOfType(open_accounts, account_type) ==
    SumSeq([i \in 1..Len(open_accounts) |->
               IF open_accounts[i].account_type = account_type
               THEN ParseBalance(open_accounts[i].balance) ELSE 0])

\* Ledger::balance_report.  The context is read and not consulted; percentages
\* are whole percents; as_of_date (the clock) is left out.
BalanceReport(d, ctx) ==
    LET filtered_accounts == SelectSeq(d.accounts, LAMBDA a : a.status = "Open")
        total_assets == TotalOfType(filtered_accounts, "Assets")
        total_liabilities == TotalOfType(filtered_accounts, "Liabilities")
        total_equity == TotalOfType(filtered_accounts, "Equity")
    IN  [entries |->
             [i \in 1..Len(filtered_accounts) |->
                 LET a == filtered_accounts[i]
                     balance == ParseBalance(a.balance)
                 IN  [account |-> a.name,
                      account_type |-> a.account_type,
                      balance |-> balance,
                      currency |-> IF IsSome(a.currency) THEN Unwrap(a.currency) ELSE "USD",
                      percentage |-> IF total_assets > 0
                                     THEN (balance * 100) \div total_assets ELSE 0]],
         total_assets |-> total_assets,
         total_liabilities |-> total_liabilities,
         total_equity |-> total_equity,
         net_worth |-> total_assets - total_liabilities,
         currency |-> "USD"]

\* The postings of the transactions inside the context, in order.
RECURSIVE FilteredPostings(_, _)
FilteredPostings(transactions, ctx) ==
    IF transactions = <<>> THEN <<>>
    ELSE (IF FilterByTime(Head(transactions), ctx) THEN Head(transactions).postings
          ELSE <<>>)
         \o FilteredPostings(Tail(transactions), ctx)

\* income_by_account / expense_by_account: for each account of the group, the
\* sum of the magnitudes of its postings' amounts (0 for an omitted amount).
ByAccount(postings, group) ==
    LET names == {postings[i].account : i \in {k \in 1..Len(postings) :
                      ParseAccountType(postings[k].account) = group}}
    IN  [n \in names |->
            SumSeq([i \in 1..Len(postings) |->
                       IF postings[i].account = n
                       THEN Abs(IF IsSome(AmountValue(postings[i]))
                                THEN Unwrap(AmountValue(postings[i])) ELSE 0)
                       ELSE 0])]

\* The sum of the values of a map.
RECURSIVE SumValues(_)
SumValues(f) ==
    IF DOMAIN f = {} THEN 0
    ELSE LET n == CHOOSE x \in DOMAIN f : TRUE
         IN  f[n] + SumValues([x \in DOMAIN f \ {n} |-> f[x]])

\* Ledger::income_expense_report.  The entries come out of a HashMap in no fixed
\* order and are kept as the map itself.
IncomeExpenseReport(d, ctx) ==
    LET postings == FilteredPostings(d.transactions, ctx)
        income_by_account == ByAccount(postings, "Income")
        expense_by_account == ByAccount(postings, "Expenses")
        total_income == SumValues(income_by_account)
        total_expenses == SumValues(expense_by_account)
    IN  [income_entries |-> income_by_account,
         expense_entries |-> expense_by_account,
         total_income |-> total_income,
         total_expenses |-> total_expenses,
         net_income |-> total_income - total_expenses,
         currency |-> "USD",
         period_start |-> StartDate(ctx),
         period_end |-> EndDate(ctx)]

ReportsAlphabet ==
    {Open(AssetsX, 1)}
    \cup {Balance(AssetsX, d, 100000) : d \in Dates}
    \cup {Txn(d, <<"Shop">>, None, ps) : d \in Dates, ps \in {Spend, Gift}}

InitReports ==
    /\ input \in [dirs : SeqsUpTo(ReportsAlphabet, MaxDirs)]
    /\ result = None
    /\ fs = <<>>
    /\ entry = ""
    /\ directives = <<>>
    /\ data = EmptyData
    /\ time_context = AllTime
    /\ lock = FreeLock
    /\ pc = NoHandlers
    /\ local = NoHandlers
    /\ stable = NoSnapshot
    /\ outcome = None

\* Ledger::set_time_range(TimeRange::All)
SetTimeRangeAll ==
    /\ time_context' = Standard("All")
    /\ result' = None
    /\ UNCHANGED <<fs, entry, directives, data, lock, pc, local, stable, outcome, input>>

\* Ledger::set_custom_range
SetCustomRange ==
    /\ \E start \in Dates, end \in Dates : time_context' = Custom(start, end)
    /\ result' = None
    /\ UNCHANGED <<fs, entry, directives, data, lock, pc, local, stable, outcome, input>>

QueryBalanceReport ==
    /\ result' = Some(Answer("balance_report", "", BalanceReport(data, time_context)))
    /\ UNCHANGED <<fs, entry, directives, data, time_context, lock, pc, local,
                   stable, outcome, input>>

QueryIncomeExpenseReport ==
    /\ result' = Some(Answer("income_expense_report", "",
                             IncomeExpenseReport(data, time_context)))
    /\ UNCHANGED <<fs, entry, directives, data, time_context, lock, pc, local,
                   stable, outcome, input>>

\* str::to_lowercase().contains(query), tabulated on the strings of the model
\* and the queries drawn.
SearchWords == {"shop", "gift", "assets"}
LowerContains(s, query) ==
    \/ query = "shop" /\ s = "Shop"
    \/ query = "gift" /\ s = IncomeGift
    \/ query = "assets" /\ s \in {AssetsX, AssetsY}

\* Ledger::search_transactions: the transactions whose payee, narration, tags or
\* posting accounts contain the query, in order (the model has no links).
SearchTransactions(d, query) ==
    SelectSeq(d.transactions, LAMBDA t :
        \/ LowerContains(t.payee, query)
        \/ \E k \in 1..Len(t.narration) : LowerContains(t.narration[k], query)
        \/ \E k \in 1..Len(t.tags) : LowerContains(t.tags[k], query)
        \/ \E k \in 1..Len(t.postings) : LowerContains(t.postings[k].account, query))

\* A variant of the search that takes the matches out of the ledger.
QuerySearchTransactionsMutDrain ==
    /\ \E query \in SearchWords :
          /\ result' = Some(Answer("search_transactions", query,
                                   SearchTransactions(data, query)))
          /\ data' = [data EXCEPT !.transactions =
                         SelectSeq(@, LAMBDA t :
                             t \notin Range(SearchTransactions(data, query)))]
    /\ UNCHANGED <<fs, entry, directives, time_context, lock, pc, local,
                   stable, outcome, input>>

QuerySearchTransactions ==
    /\ \E query \in SearchWords :
          result' = Some(Answer("search_transactions", query,
                                SearchTransactions(data, query)))
    /\ UNCHANGED <<fs, entry, directives, data, time_context, lock, pc, local,
                   stable, outcome, input>>

QueryAccountBalances ==
    /\ result' = Some(Answer("calculate_account_balances", "",
                             CalculateAccountBalances(data)))
    /\ UNCHANGED <<fs, entry, directives, data, time_context, lock, pc, local,
                   stable, outcome, input>>

NextReports ==
    \/ LoadInput
    \/ SetTimeRangeAll
    \/ SetCustomRange
    \/ QueryBalanceReport
    \/ QueryIncomeExpenseReport
    \/ QuerySearchTransactions
    \/ QueryAccountBalances

SpecReports == InitReports /\ [][NextReports]_vars

-----------------------------------------------------------------------------
(* SpecParser: SimpleBeancountParser::parse_with_source on lines of text *)

MaxLines == 4

\* A line of text, by what the parser looks at: whether it starts with white
\* space, its form (blank, a ";" or "#" comment, an org-mode "*" header, a line
\* that starts with a date, any other line), the word that follows the date or
\* opens the line, and the number of white-space separated parts from that word on.
Line(indent, form, keyword, parts) ==
    [indent |-> indent, form |-> form, keyword |-> keyword, parts |-> parts]

\* The lines drawn.  Dated lines carry date 1, account Assets:X, pad account
\* Equity:Open, amount 100 CNY; postings are "Assets:X -20 CNY" and "Expenses:Food".
TextLines ==
    {Line(FALSE, "blank", "", 0),
     Line(FALSE, "comment", ";", 1),
     Line(FALSE, "org", "*", 1),
     Line(FALSE, "dated", "open", 3),
     Line(FALSE, "dated", "open", 1),
     Line(FALSE, "dated", "close", 2),
     Line(FALSE, "dated", "balance", 4),
     Line(FALSE, "dated", "balance", 3),
     Line(FALSE, "dated", "pad", 3),
     Line(FALSE, "dated", "commodity", 2),
     Line(FALSE, "dated", "*", 3),
     Line(FALSE, "dated", "junk", 2),
     Line(FALSE, "plain", "include", 2),
     Line(FALSE, "plain", "junk", 1),
     Line(TRUE, "plain", "posting", 3),
     Line(TRUE, "plain", "posting", 1),
     Line(TRUE, "plain", "meta", 2),
     Line(TRUE, "plain", "junk", 1)}

Commodity(d) == [kind |-> "commodity", date |-> d]

\* "Skip empty lines and comments" and the org-mode headers.
SkippedLine(line) == line.form \in {"blank", "comment", "org"}

\* The continuation lines of a block that starts on line i: the indented,
\* non-empty lines that follow it without a gap.
RECURSIVE ContinuationLines(_, _)
ContinuationLines(lines, i) ==
    IF i + 1 <= Len(lines) /\ lines[i + 1].indent /\ lines[i + 1].form # "blank"
    THEN <<lines[i + 1]>> \o ContinuationLines(lines, i + 1)
    ELSE <<>>

\* parse_posting on a continuation line: a posting, or nothing.
ParsePosting(line) ==
    IF line.keyword # "posting" THEN None
    ELSE IF line.parts >= 3
         THEN Some(PPosting(AssetsX, Amt(-20000, "CNY"), None))
         ELSE Some(PPosting(ExpensesFood, None, None))

\* parse_transaction_full: metadata lines go to the metadata (the time of day,
\* here 1), lines parse_posting accepts become postings, the others are passed
\* over.
ParseTransactionFull(date, continuation_lines) ==
    LET parsed == [k \in 1..Len(continuation_lines) |->
                      ParsePosting(continuation_lines[k])]
        kept == SelectSeq(parsed, LAMBDA p : IsSome(p))
        meta == SelectSeq(continuation_lines, LAMBDA l : l.keyword = "meta")
    IN  Txn(date, <<"Shop">>, IF meta = <<>> THEN None ELSE Some(1),
            [k \in 1..Len(kept) |-> Unwrap(kept[k])])

\* parse_directive_block: a transaction or a commodity with its continuation
\* lines, and the number of lines consumed; nothing for any other line.
ParseDirectiveBlock(lines, i, source) ==
    LET line == lines[i]
        continuation_lines == ContinuationLines(lines, i)
    IN  IF line.form # "dated" THEN None
        ELSE IF line.keyword = "*"
        THEN Some([directive |-> Spanned(ParseTransactionFull(1, continuation_lines),
                                         i, source),
                   lines_consumed |-> 1 + Len(continuation_lines)])
        ELSE IF line.keyword = "commodity"
        THEN Some([directive |-> Spanned(Commodity(1), i, source),
                   lines_consumed |-> 1 + Len(continuation_lines)])
        ELSE None

\* parse_line on a dated line: the directive of its keyword when the line has
\* the parts the directive needs, a Comment otherwise.
ParseDated(line) ==
    CASE line.keyword = "open" /\ line.parts >= 2 ->
             OpenWith(AssetsX, 1, IF line.parts >= 3 THEN <<"CNY">> ELSE <<>>)
      [] line.keyword = "close" /\ line.parts >= 2 -> Close(AssetsX, 1)
      [] line.keyword = "balance" /\ line.parts >= 4 -> Balance(AssetsX, 1, 100000)
      [] line.keyword = "pad" /\ line.parts >= 3 -> Pad(AssetsX, EquityOpen, 1)
      [] line.keyword = "commodity" /\ line.parts >= 2 -> Commodity(1)
      [] OTHER -> Comment

\* parse_line: a directive for a dated line, for an undated include (or option,
\* pushtag), nothing for any other line.
ParseLine(line, line_number, source) ==
    IF line.form = "dated" THEN Some(Spanned(ParseDated(line), line_number, source))
    ELSE IF line.keyword = "include"
    THEN Some(Spanned(IF line.parts >= 2 THEN Include(IncPath) ELSE Comment,
                      line_number, source))
    ELSE None

\* A variant of the loop that gives up at the first line it cannot read.
RECURSIVE ParseFromMutStopAtUnreadable(_, _, _)
ParseFromMutStopAtUnreadable(lines, i, source) ==
    IF i > Len(lines) THEN <<>>
    ELSE IF SkippedLine(lines[i]) THEN ParseFromMutStopAtUnreadable(lines, i + 1, source)
    ELSE LET block == ParseDirectiveBlock(lines, i, source)
             single == ParseLine(lines[i], i, source)
         IN  IF IsSome(block)
             THEN <<Unwrap(block).directive>>
                  \o ParseFromMutStopAtUnreadable(lines, i + Unwrap(block).lines_consumed,
                                                  source)
             ELSE IF IsSome(single) /\ Unwrap(single).data.kind # "comment"
             THEN <<Unwrap(single)>> \o ParseFromMutStopAtUnreadable(lines, i + 1, source)
             ELSE <<>>

\* The while loop of parse_with_source from line i on.
RECURSIVE ParseFrom(_, _, _)
ParseFrom(lines, i, source) ==
    IF i > Len(lines) THEN <<>>
    ELSE IF SkippedLine(lines[i]) THEN ParseFrom(lines, i + 1, source)
    ELSE LET block == ParseDirectiveBlock(lines, i, source)
             single == ParseLine(lines[i], i, source)
         IN  IF IsSome(block)
             THEN <<Unwrap(block).directive>>
                  \o ParseFrom(lines, i + Unwrap(block).lines_consumed, source)
             ELSE IF IsSome(single)
             THEN <<Unwrap(single)>> \o ParseFrom(lines, i + 1, source)
             ELSE ParseFrom(lines, i + 1, source)

\* parse_with_source on text: always Ok(directives).
ParseTextWithSource(lines, source) == ParseOk(ParseFrom(lines, 1, source))

InitParser ==
    /\ input \in [dirs : SeqsUpTo(TextLines, MaxLines)]
    /\ result = None
    /\ fs = <<>>
    /\ entry = ""
    /\ directives = <<>>
    /\ data = EmptyData
    /\ time_context = AllTime
    /\ lock = FreeLock
    /\ pc = NoHandlers
    /\ local = NoHandlers
    /\ stable = NoSnapshot
    /\ outcome = None

\* SimpleBeancountParser::parse_with_source on the drawn text.
ParseText ==
    /\ result = None
    /\ result' = Some(ParseTextWithSource(input.dirs, MainPath))
    /\ UNCHANGED <<fs, entry, directives, data, time_context, lock, pc, local,
                   stable, outcome, input>>

NextParser == ParseText

SpecParser == InitParser /\ [][NextParser]_vars

-----------------------------------------------------------------------------
(* SpecSave: the handlers that write a ledger file and reload *)

MaxFileLen == 3

Saver == "saver"
Storer == "storer"
Asker == "asker"
SaveHandlers == {Saver, Storer, Asker}

\* The ledger files when the server starts, the bodies a file-save request
\* carries, and the transaction the create form appends (its created_at
\* metadata is a time of day).
BootMain == <<Include(IncPath), Open(AssetsX, 1)>>
BootInc == <<Balance(AssetsX, 1, 100000)>>
SaveBodies == {<<Open(AssetsX, 1), Txn(2, <<"Shop">>, None, Spend)>>}
CreatedTransaction == Txn(1, <<"Shop">>, Some(1), Spend)

\* tokio::sync::RwLock hands the lock out in the order of the requests: a
\* request is granted when it is the oldest one waiting and the lock admits it.
QueuedLock == [writer |-> None, readers |-> {}, queue |-> <<>>]
Granted(l, h) == l.queue # <<>> /\ Head(l.queue) = h

\* What a handler sent back: the message, and what Ledger::reload returned when
\* the handler called it ("none" when it did not).
Response(h, message, reload) == [handler |-> h, message |-> message, reload |-> reload]

\* Ledger::reload: Err(NotLoaded) when the entry file is absent, the error of
\* the parse when it fails, Ok otherwise.
ReloadResult(fsys, e) ==
    IF e # "" /\ fsys[e].exists THEN ParseFile(fsys, e) ELSE ParseErr

InitSave ==
    /\ fs = [p \in Paths |-> IF p = MainPath THEN File(BootMain) ELSE File(BootInc)]
    /\ entry = MainPath
    /\ directives = ParseFile(fs, MainPath).directives
    /\ data = ProcessResult(EmptyData, directives)
    /\ time_context = AllTime
    /\ lock = QueuedLock
    /\ pc = [h \in SaveHandlers |-> "idle"]
    /\ local = [h \in SaveHandlers |-> ""]
    /\ stable = NoSnapshot
    /\ outcome = None
    /\ input = [dirs |-> <<>>]
    /\ result = None

\* api_file_save is called: state.ledger.read().await is requested.
SaveRequest ==
    /\ pc[Saver] = "idle"
    /\ \E path \in Paths, body \in SaveBodies :
          local' = [local EXCEPT ![Saver] = [path |-> path, body |-> body]]
    /\ lock' = [lock EXCEPT !.queue = Append(@, Saver)]
    /\ pc' = [pc EXCEPT ![Saver] = "pending"]
    /\ UNCHANGED <<fs, entry, directives, data, time_context, stable, outcome, input, result>>

\* The read guard is granted and validate_accounts runs under it; the guard
\* stays in scope until the handler returns.
SaveValidate ==
    /\ pc[Saver] = "pending"
    /\ Granted(lock, Saver)
    /\ CanRead(lock)
    /\ lock' = [lock EXCEPT !.queue = Tail(@), !.readers = @ \cup {Saver}]
    /\ pc' = [pc EXCEPT ![Saver] = "validated"]
    /\ UNCHANGED <<fs, entry, directives, data, time_context, local, stable, outcome,
                   input, result>>

\* std::fs::write: on an error the failure is answered and the guard dropped;
\* on success state.ledger.write().await is requested.
SaveWrite ==
    /\ pc[Saver] = "validated"
    /\ IF fs[local[Saver].path] = Unreadable
       THEN /\ result' = Some(Response(Saver, "save failed", "none"))
            /\ lock' = [lock EXCEPT !.readers = @ \ {Saver}]
            /\ pc' = [pc EXCEPT ![Saver] = "idle"]
            /\ UNCHANGED fs
       ELSE /\ fs' = [fs EXCEPT ![local[Saver].path] = File(local[Saver].body)]
            /\ lock' = [lock EXCEPT !.queue = Append(@, Saver)]
            /\ pc' = [pc EXCEPT ![Saver] = "awaiting"]
            /\ UNCHANGED result
    /\ UNCHANGED <<entry, directives, data, time_context, local, stable, outcome, input>>

\* htmx_transaction_store: the transaction text is appended to the main file; when
\* the file cannot be opened the failure is answered, otherwise
\* state.ledger.write().await is requested.
StoreWrite ==
    /\ pc[Storer] = "idle"
    /\ IF fs[MainPath].exists /\ fs[MainPath].readable
       THEN /\ Len(fs[MainPath].content) < MaxFileLen
            /\ fs' = [fs EXCEPT ![MainPath] = File(@.content \o <<CreatedTransaction>>)]
            /\ lock' = [lock EXCEPT !.queue = Append(@, Storer)]
            /\ pc' = [pc EXCEPT ![Storer] = "awaiting"]
            /\ UNCHANGED result
       ELSE /\ result' = Some(Response(Storer, "save failed", "none"))
            /\ UNCHANGED <<fs, lock, pc>>
    /\ UNCHANGED <<entry, directives, data, time_context, local, stable, outcome, input>>

\* The end of both handlers: the write guard is granted, ledger.reload() runs, an
\* error is only logged, the success message is answered and the guards are
\* dropped.
ReloadAndRespond(h) ==
    /\ pc[h] = "awaiting"
    /\ Granted(lock, h)
    /\ CanWrite(lock)
    /\ LET parsed == ReloadResult(fs, entry)
       IN  /\ IF parsed.ok
              THEN /\ directives' = parsed.directives
                   /\ data' = ProcessResult(data, parsed.directives)
              ELSE UNCHANGED <<directives, data>>
           /\ result' = Some(Response(h, "saved, ledger reloaded",
                                      IF parsed.ok THEN "ok" ELSE "err"))
    /\ lock' = [lock EXCEPT !.queue = Tail(@), !.readers = @ \ {h}]
    /\ pc' = [pc EXCEPT ![h] = "idle"]
    /\ UNCHANGED <<fs, entry, time_context, local, stable, outcome, input>>

\* A read-only query: state.ledger.read().await is requested, granted, released.
AskRequest ==
    /\ pc[Asker] = "idle"
    /\ lock' = [lock EXCEPT !.queue = Append(@, Asker)]
    /\ pc' = [pc EXCEPT ![Asker] = "pending"]
    /\ UNCHANGED <<fs, entry, directives, data, time_context, local, stable, outcome,
                   input, result>>

AskAcquire ==
    /\ pc[Asker] = "pending"
    /\ Granted(lock, Asker)
    /\ CanRead(lock)
    /\ lock' = [lock EXCEPT !.queue = Tail(@), !.readers = @ \cup {Asker}]
    /\ pc' = [pc EXCEPT ![Asker] = "holding"]
    /\ UNCHANGED <<fs, entry, directives, data, time_context, local, stable, outcome,
                   input, result>>

AskRelease ==
    /\ pc[Asker] = "holding"
    /\ lock' = [lock EXCEPT !.readers = @ \ {Asker}]
    /\ pc' = [pc EXCEPT ![Asker] = "idle"]
    /\ UNCHANGED <<fs, entry, directives, data, time_context, local, stable, outcome,
                   input, result>>

\* The environment: the included file is removed or made unreadable.
BreakInclude ==
    /\ fs[IncPath].exists /\ fs[IncPath].readable
    /\ fs' = [fs EXCEPT ![IncPath] = Unreadable]
    /\ UNCHANGED <<entry, directives, data, time_context, lock, pc, local, stable,
                   outcome, input, result>>

NextSave ==
    \/ SaveRequest
    \/ SaveValidate
    \/ SaveWrite
    \/ StoreWrite
    \/ \E h \in {Saver, Storer} : ReloadAndRespond(h)
    \/ AskRequest
    \/ AskAcquire
    \/ AskRelease
    \/ BreakInclude

\* The runtime keeps polling every handler that can go on.
SaveFairness ==
    /\ WF_vars(SaveValidate)
    /\ WF_vars(SaveWrite)
    /\ WF_vars(\E h \in {Saver, Storer} : ReloadAndRespond(h))
    /\ WF_vars(AskAcquire)
    /\ WF_vars(AskRelease)

SpecSave == InitSave /\ [][NextSave]_vars /\ SaveFairness

-----------------------------------------------------------------------------
(* SpecPad: process_result on ledgers of balances, pads and transactions *)

MaxPadDirs == 4

\* Balance assertions of 100 and 150 on Assets:X, pads of Assets:X from an Income
\* and from an Equity account, and transactions that post to Assets:X.
PadAlphabet ==
    {Balance(AssetsX, d, a) : d \in Dates, a \in {100000, 150000}}
    \cup {Pad(AssetsX, p, d) : p \in {IncomeGift, EquityOpen}, d \in Dates}
    \cup {Txn(d, <<"Shop">>, None, ps) : d \in Dates, ps \in {Spend, Gift}}

InitPad ==
    /\ input \in [dirs : SeqsUpTo(PadAlphabet, MaxPadDirs)]
    /\ result = None
    /\ fs = <<>>
    /\ entry = ""
    /\ directives = <<>>
    /\ data = EmptyData
    /\ time_context = AllTime
    /\ lock = FreeLock
    /\ pc = NoHandlers
    /\ local = NoHandlers
    /\ stable = NoSnapshot
    /\ outcome = None

NextPad == LoadInput \/ QueryBalances

SpecPad == InitPad /\ [][NextPad]_vars

-----------------------------------------------------------------------------
(* SpecInclude: parse_file_with_base, one call and one directive at a time *)

MaxDepth == 4
MaxFileDirs == 2

\* The files drawn: absent, unreadable, or up to two directives among an include
\* of either path and an open.
IncludeContents ==
    SeqsUpTo({Include(MainPath), Include(IncPath), Open(AssetsX, 1)}, MaxFileDirs)
IncludeFiles == {Missing, Unreadable} \cup {File(c) : c \in IncludeContents}

\* A call of parse_file_with_base in progress: its path, the directives of
\* all_directives the loop has not reached, and processed_directives.
Frame(fsys, path) ==
    [path |-> path, todo |-> ParseWithSource(fsys[path].content, path), done |-> <<>>]

OnStack(stack) == {stack[i].path : i \in 1..Len(stack)}

\* A variant of the branch for a plain include path that leaves out a file
\* whose parse is already in progress.
IncludeBranchMutSkipVisited(fsys, stack, included_path) ==
    IF fsys[included_path].exists /\ included_path \notin OnStack(stack)
    THEN "parse" ELSE "skip"

\* The branch for a plain include path: the file is parsed when the path
\* exists, whatever calls are in progress, and the directive dropped otherwise.
IncludeBranch(fsys, stack, included_path) ==
    IF fsys[included_path].exists THEN "parse" ELSE "skip"

InitInclude ==
    /\ fs \in [Paths -> IncludeFiles]
    /\ entry = MainPath
    /\ local = <<>>
    /\ result = None
    /\ outcome = None
    /\ directives = <<>>
    /\ data = EmptyData
    /\ time_context = AllTime
    /\ lock = FreeLock
    /\ pc = NoHandlers
    /\ stable = NoSnapshot
    /\ input = [dirs |-> <<>>]

\* parse_file(entry): read_to_string fails with an I/O error, or the first call
\* of parse_file_with_base starts.
ParseFileCall ==
    /\ outcome = None
    /\ outcome' = Some("parsing")
    /\ IF fs[entry].exists /\ fs[entry].readable
       THEN /\ local' = <<Frame(fs, entry)>>
            /\ UNCHANGED result
       ELSE /\ result' = Some(ParseErr)
            /\ UNCHANGED local
    /\ UNCHANGED <<fs, entry, directives, data, time_context, lock, pc, stable, input>>

\* The loop meets a directive that is not an include: it is pushed.
PushDirective ==
    /\ local # <<>>
    /\ LET top == local[Len(local)]
       IN  /\ top.todo # <<>>
           /\ Head(top.todo).data.kind # "include"
           /\ local' = [local EXCEPT ![Len(local)] =
                           [top EXCEPT !.todo = Tail(@),
                                       !.done = Append(@, Head(top.todo))]]
    /\ UNCHANGED <<fs, entry, directives, data, time_context, lock, pc, stable,
                   outcome, input, result>>

\* The loop meets an include: the directive is dropped, or the included file is
\* read and a nested call starts, or the read fails and the error is returned
\* through every call in progress.
EnterInclude ==
    /\ local # <<>>
    /\ Len(local) < MaxDepth
    /\ LET top == local[Len(local)]
       IN  /\ top.todo # <<>>
           /\ Head(top.todo).data.kind = "include"
           /\ LET included_path == Head(top.todo).data.path
              IN  IF IncludeBranch(fs, local, included_path) = "skip"
                  THEN /\ local' = [local EXCEPT ![Len(local)] =
                                       [top EXCEPT !.todo = Tail(@)]]
                       /\ UNCHANGED result
                  ELSE IF fs[included_path].readable
                  THEN /\ local' = Append(local, Frame(fs, included_path))
                       /\ UNCHANGED result
                  ELSE /\ local' = <<>>
                       /\ result' = Some(ParseErr)
    /\ UNCHANGED <<fs, entry, directives, data, time_context, lock, pc, stable,
                   outcome, input>>

\* The loop of a call ends: Ok(processed_directives) goes to the caller, which
\* extends its own list with it, or to the caller of parse_file.
ReturnDirectives ==
    /\ local # <<>>
    /\ LET top == local[Len(local)]
       IN  /\ top.todo = <<>>
           /\ IF Len(local) = 1
              THEN /\ result' = Some(ParseOk(top.done))
                   /\ local' = <<>>
              ELSE /\ local' = [SubSeq(local, 1, Len(local) - 1)
                                  EXCEPT ![Len(local) - 1] =
                                      [@ EXCEPT !.todo = Tail(@),
                                                !.done = @ \o top.done]]
                   /\ UNCHANGED result
    /\ UNCHANGED <<fs, entry, directives, data, time_context, lock, pc, stable,
                   outcome, input>>

NextInclude == ParseFileCall \/ PushDirective \/ EnterInclude \/ ReturnDirectives

SpecInclude == InitInclude /\ [][NextInclude]_vars

-----------------------------------------------------------------------------
(* SpecMonth: the Time Context on the calendar *)

\* The years of the clock and of the year selections: a common and a leap year.
ClockYears == {2023, 2024}

\* chrono::NaiveDate, as year, month and day.
Ymd(year, month, day) == [year |-> year, month |-> month, day |-> day]

IsLeapYear(year) == (year % 4 = 0 /\ year % 100 # 0) \/ year % 400 = 0

DaysInMonth(year, month) ==
    IF month = 2 THEN (IF IsLeapYear(year) THEN 29 ELSE 28)
    ELSE IF month \in {4, 6, 9, 11} THEN 30 ELSE 31

\* NaiveDate::from_ymd_opt: None when the month or the day does not exist.
FromYmdOpt(year, month, day) ==
    IF month \in 1..12 /\ day \in 1..DaysInMonth(year, month)
    THEN Some(Ymd(year, month, day)) ELSE None

\* NaiveDate::pred_opt: the day before.
PredOpt(date) ==
    IF date.day > 1 THEN Some(Ymd(date.year, date.month, date.day - 1))
    ELSE IF date.month > 1
    THEN Some(Ymd(date.year, date.month - 1, DaysInMonth(date.year, date.month - 1)))
    ELSE Some(Ymd(date.year - 1, 12, 31))

\* Option::and_then(pred_opt)
AndThenPred(opt) == IF IsSome(opt) THEN PredOpt(Unwrap(opt)) ELSE None

\* Option::unwrap_or
UnwrapOr(opt, default) == IF IsSome(opt) THEN Unwrap(opt) ELSE default

\* The order of NaiveDate.
DateLe(a, b) ==
    \/ a.year < b.year
    \/ a.year = b.year /\ a.month < b.month
    \/ a.year = b.year /\ a.month = b.month /\ a.day <= b.day

AllDays ==
    {Ymd(y, m, d) : y \in ClockYears, m \in 1..12, d \in 1..31}
    \cap {date \in [year : ClockYears, month : 1..12, day : 1..31] :
             date.day <= DaysInMonth(date.year, date.month)}

\* TimeContext::start_date with Utc::now().date_naive() = today.
ClockStartDate(ctx, today) ==
    CASE ctx.range = "Month" -> Some(Ymd(today.year, today.month, 1))
      [] ctx.range = "Quarter" ->
            FromYmdOpt(today.year, ((today.month - 1) \div 3) * 3 + 1, 1)
      [] ctx.range = "Year" -> FromYmdOpt(today.year, 1, 1)
      [] ctx.range = "All" -> None
      [] OTHER -> ctx.custom_start

\* TimeContext::end_date with Utc::now().date_naive() = today.
ClockEndDate(ctx, today) ==
    CASE ctx.range = "Month" ->
            Some(UnwrapOr(AndThenPred(FromYmdOpt(today.year, today.month + 1, 1)),
                          today))
      [] ctx.range = "Quarter" ->
            LET last == AndThenPred(FromYmdOpt(today.year,
                                       (((today.month - 1) \div 3) + 1) * 3 + 1, 1))
            IN  IF IsSome(last) THEN last ELSE Some(today)
      [] ctx.range = "Year" -> FromYmdOpt(today.year, 12, 31)
      [] ctx.range = "All" -> None
      [] OTHER -> ctx.custom_end

\* TimeContext::contains
ClockContains(ctx, today, date) ==
    /\ IsSome(ClockStartDate(ctx, today)) => DateLe(Unwrap(ClockStartDate(ctx, today)), date)
    /\ IsSome(ClockEndDate(ctx, today)) => DateLe(date, Unwrap(ClockEndDate(ctx, today)))

\* The range api_set_time_range sets for "month:MM" and "year:YYYY-MM".
MonthSelection(year, month) ==
    LET start == Unwrap(FromYmdOpt(year, month, 1))
        end == UnwrapOr(PredOpt(UnwrapOr(FromYmdOpt(year, month + 1, 1), start)), start)
    IN  Custom(start, end)

InitMonth ==
    /\ input \in [dirs : {<<>>}, today : AllDays]
    /\ time_context = AllTime
    /\ local = None
    /\ result = None
    /\ fs = <<>>
    /\ entry = ""
    /\ directives = <<>>
    /\ data = EmptyData
    /\ lock = FreeLock
    /\ pc = NoHandlers
    /\ stable = NoSnapshot
    /\ outcome = None

\* api_set_time_range with range "month", "quarter", "year" or "all".
SetStandardRange ==
    /\ \E range \in {"Month", "Quarter", "Year", "All"} :
          time_context' = Standard(range)
    /\ local' = None
    /\ result' = None
    /\ UNCHANGED <<fs, entry, directives, data, lock, pc, stable, outcome, input>>

\* api_set_time_range with "month:MM": the month of the clock's year.
SelectMonth ==
    /\ \E month \in 1..12 :
          /\ time_context' = MonthSelection(input.today.year, month)
          /\ local' = Some([year |-> input.today.year, month |-> month])
    /\ result' = None
    /\ UNCHANGED <<fs, entry, directives, data, lock, pc, stable, outcome, input>>

\* api_set_time_range with "year:YYYY-MM".
SelectYearMonth ==
    /\ \E year \in ClockYears, month \in 1..12 :
          /\ time_context' = MonthSelection(year, month)
          /\ local' = Some([year |-> year, month |-> month])
    /\ result' = None
    /\ UNCHANGED <<fs, entry, directives, data, lock, pc, stable, outcome, input>>

\* A filter by the context: the days of the clock's years that contains() keeps.
FilterDays ==
    /\ result = None
    /\ result' = Some({date \in AllDays : ClockContains(time_context, input.today, date)})
    /\ UNCHANGED <<fs, entry, directives, data, time_context, lock, pc, local, stable,
                   outcome, input>>

NextMonth == SetStandardRange \/ SelectMonth \/ SelectYearMonth \/ FilterDays

SpecMonth == InitMonth /\ [][NextMonth]_vars

-----------------------------------------------------------------------------
(* What the claims speak of, stated on the ledger's state *)

Loaded == outcome = Some("ok")

\* The indices of the stored directives of one kind.
DirectiveIndices(kind) == {i \in 1..Len(directives) : directives[i].data.kind = kind}

PadDirectives == SelectSeq(directives, LAMBDA sd : sd.data.kind = "pad")
SyntheticTransactions == SelectSeq(data.transactions, LAMBDA t : t.id.prefix = "pad")

\* The Balance directives of an account, as indices into the directive list.
BalanceIndices(name) ==
    {i \in DirectiveIndices("balance") : directives[i].data.account = name}

MaxOf(S) == CHOOSE x \in S : \A y \in S : y <= x
MinOf(S) == CHOOSE x \in S : \A y \in S : x <= y

\* The double-entry value of posting j of a transaction: its explicit amount, or
\* minus the sum of the other postings' amounts when it is omitted.
DoubleEntryAmount(tx, j) ==
    IF IsSome(tx.postings[j].amount) THEN Unwrap(tx.postings[j].amount).units
    ELSE -SumSeq([k \in 1..Len(tx.postings) |->
                     IF k # j /\ IsSome(tx.postings[k].amount)
                     THEN Unwrap(tx.postings[k].amount).units ELSE 0])

\* What a transaction posts to an account, every posting counted once.
PostedTo(tx, name) ==
    SumSeq([j \in 1..Len(tx.postings) |->
               IF tx.postings[j].account = name THEN DoubleEntryAmount(tx, j) ELSE 0])

\* C5: for every Pad directive the transaction list holds exactly one synthetic
\* transaction, in the same order, dated at the pad, with exactly two postings (on the
\* pad's two accounts) whose amounts are exact additive inverses.
C5_PadSynthesis ==
    Loaded =>
        /\ Len(SyntheticTransactions) = Len(PadDirectives)
        /\ \A k \in 1..Len(PadDirectives) :
              LET t == SyntheticTransactions[k]
                  p == PadDirectives[k].data
              IN  /\ t.date = p.date
                  /\ Len(t.postings) = 2
                  /\ t.postings[1].account = p.account
                  /\ t.postings[2].account = p.pad
                  /\ IsSome(t.postings[1].amount) /\ IsSome(t.postings[2].amount)
                  /\ Unwrap(t.postings[1].amount).units
                     + Unwrap(t.postings[2].amount).units = 0

\* C5's case: a list with two Pad directives, one of which is given a non-zero
\* amount that the two-decimal formatting rounds.
C5_Witness ==
    /\ Loaded
    /\ Len(PadDirectives) >= 2
    /\ \E k \in 1..Len(SyntheticTransactions) :
          Unwrap(SyntheticTransactions[k].postings[2].amount).units \in {150000, -150000}
    /\ \E i \in DirectiveIndices("balance") : directives[i].data.amount = 150004

\* C6: the snapshot (amount, currency, date) carried by an account with two or more
\* Balance directives is that of one dated latest, never of an earlier one, whatever
\* the directive order.
C6_LatestSnapshot ==
    Loaded =>
        \A a \in 1..Len(data.accounts) :
            LET acc == data.accounts[a]
                own == BalanceIndices(acc.name)
                latest == MaxOf({directives[i].data.date : i \in own})
            IN  Cardinality(own) >= 2 /\ IsSome(acc.balance) =>
                    \E i \in own :
                          /\ directives[i].data.date = latest
                          /\ Unwrap(acc.balance) = Snapshot(directives[i].data)

\* C4: a Pad makes the next Balance assertion of its first-named account hold.
\* Replaying the account up to the earliest assertion dated on or after the pad (the
\* preceding Balance amount, or zero, plus what the transactions since then and before
\* the assertion post to the account, this pad's synthetic transaction included) gives
\* the asserted amount, to the cent.  The transactions replayed are read in each of
\* three ways: from the preceding Balance's day on, from the day after it, or all of
\* the earlier ones; the claim is taken to hold if any reading gives the amount.
C4_PadMakesBalanceHold ==
    Loaded =>
        \A k \in 1..Len(PadDirectives) :
            LET p == PadDirectives[k].data
                own == BalanceIndices(p.account)
                after == {directives[i].data.date : i \in own} \cap (p.date..MaxDate)
                D == MinOf(after)
                before == {directives[i].data.date : i \in own} \cap (1..(D - 1))
                prevDate == IF before = {} THEN 0 ELSE MaxOf(before)
                bases == IF before = {} THEN {0}
                         ELSE {directives[i].data.amount :
                                  i \in {j \in own : directives[j].data.date = prevDate}}
                replay(base, from) ==
                    base + SumSeq([n \in 1..Len(data.transactions) |->
                        LET tx == data.transactions[n]
                        IN  IF \/ (tx.date >= from /\ tx.date < D)
                               \/ (tx = SyntheticTransactions[k] /\ tx.date <= D)
                            THEN PostedTo(tx, p.account) ELSE 0])
            IN  after # {} =>
                    \E i \in own, base \in bases, from \in {prevDate, prevDate + 1, 0} :
                        /\ directives[i].data.date = D
                        /\ Abs(replay(base, from) - directives[i].data.amount) < 10

\* C8: calculate_account_balances gives every account with a snapshot (S, D) the value
\* S plus what the transactions dated on or after D post to it, and every account
\* without a snapshot what all transactions post to it; each posting is counted once,
\* an omitted one at minus the sum of the others.
C8_BalancesFromSnapshot ==
    IsSome(result) =>
        \A name \in DOMAIN Unwrap(result) :
            LET i == FindAccount(data.accounts, name)
                snap == IF i # 0 THEN data.accounts[i].balance ELSE None
                S == IF IsSome(snap) THEN Unwrap(snap).amount ELSE 0
                D == IF IsSome(snap) THEN Unwrap(snap).date ELSE 0
            IN  Unwrap(result)[name]
                = S + SumSeq([n \in 1..Len(data.transactions) |->
                                 IF data.transactions[n].date >= D
                                 THEN PostedTo(data.transactions[n], name) ELSE 0])

-----------------------------------------------------------------------------
(* The account pages *)

\* A response of the transactions-list handler that shows the whole timeline.
FullList ==
    /\ IsSome(result)
    /\ Unwrap(result).handler = "list"
    /\ Unwrap(result).params = [limit |-> DefaultLimit, offset |-> 0, q |-> None]

\* The ledger of the worked example: Balance(d0, 100), Tx(d1, -20), Tx(d2, +5).
ExampleLedger ==
    <<Balance(AssetsX, 1, 100000), Txn(2, <<"Shop">>, None, Spend),
      Txn(3, <<"Shop">>, None, Gift)>>

\* C9: the rows of an account's timeline, read oldest first, are ordered by (date,
\* time) and hold every event of the account once; the running balance of a Balance
\* row is the asserted amount, that of a Transaction or Pad row the previous running
\* balance (zero before the first row) plus the row's amount.  The ledger
\* [Balance(d0, 100), Tx(d1, -20), Tx(d2, +5)] gives 100, 80, 85, shown newest first
\* as 85, 80, 100; the account page of the opened account, after the first two of
\* these events, shows the balance 80.
C9_ForwardPass ==
    /\ FullList =>
          LET r == Unwrap(result)
              timeline == Reverse(r.rows)
              n == Len(timeline)
          IN  /\ n = Len(TransactionsByAccount(data, r.account))
                     + Len(BalancesByAccount(data, r.account))
              /\ \A k \in 1..(n - 1) :
                    \/ timeline[k].date < timeline[k + 1].date
                    \/ /\ timeline[k].date = timeline[k + 1].date
                       /\ timeline[k].time <= timeline[k + 1].time
              /\ \A k \in 1..n :
                    timeline[k].running_balance =
                        IF timeline[k].item_type = "Balance"
                        THEN timeline[k].posting_amount
                        ELSE (IF k = 1 THEN 0 ELSE timeline[k - 1].running_balance)
                             + timeline[k].posting_amount
              /\ (input.dirs = ExampleLedger /\ r.account = AssetsX) =>
                    [k \in 1..n |-> r.rows[k].running_balance] = <<85000, 80000, 100000>>
    /\ (/\ IsSome(result)
        /\ Unwrap(result).handler = "detail"
        /\ Unwrap(result).account = AssetsX
        /\ directives = ParseWithSource(<<Open(AssetsX, 1)>> \o SubSeq(ExampleLedger, 1, 2),
                                        MainPath))
       => Unwrap(result).balance = Some(80000)

\* C9's case: the timeline of the worked example has been rendered.
C9_Witness ==
    /\ FullList
    /\ Unwrap(result).account = AssetsX
    /\ input.dirs = ExampleLedger
    /\ Len(Unwrap(result).rows) = 3

\* The transaction a row of a response was built from.
RowTransaction(r, row) ==
    (IF IsSome(r.params.q)
     THEN SelectSeq(TransactionsByAccount(data, r.account),
                    LAMBDA tx : Unwrap(r.params.q) \in Range(tx.narration))
     ELSE TransactionsByAccount(data, r.account))[row.origin[2]]

\* The postings of a transaction that omit their amount.
Omitted(tx) == {j \in 1..Len(tx.postings) : ~IsSome(tx.postings[j].amount)}

\* Minus the sum of the explicit postings, each at its price if it has one.
InverseAtPrice(tx) ==
    -SumSeq([k \in 1..Len(tx.postings) |->
                LET p == tx.postings[k]
                IN  IF ~IsSome(p.amount) THEN 0
                    ELSE IF IsSome(Unwrap(p.amount).price)
                    THEN (Unwrap(p.amount).units * Unwrap(Unwrap(p.amount).price).amount)
                         \div 1000
                    ELSE Unwrap(p.amount).units])

\* C10: for a transaction with exactly one omitted posting, the amount the timeline
\* row of the omitted posting's account carries, and the amount the balance
\* aggregator computes for it, is minus the sum of the other postings (counted in
\* units, or at their price: either reading is accepted).
C10_OmittedPostingInferred ==
    (IsSome(result) /\ Unwrap(result).handler = "list") =>
        \A k \in 1..Len(Unwrap(result).rows) :
            LET r == Unwrap(result)
                row == r.rows[k]
                tx == RowTransaction(r, row)
            IN  (/\ row.origin[1] = "transaction"
                 /\ Cardinality(Omitted(tx)) = 1
                 /\ \A j \in 1..Len(tx.postings) :
                       tx.postings[j].account = r.account <=> j \in Omitted(tx))
                => /\ row.posting_amount
                        \in {DoubleEntryAmount(tx, CHOOSE j \in Omitted(tx) : TRUE),
                             InverseAtPrice(tx)}
                   /\ CalculatePostingAmount(tx, r.account)
                        \in {DoubleEntryAmount(tx, CHOOSE j \in Omitted(tx) : TRUE),
                             InverseAtPrice(tx)}

-----------------------------------------------------------------------------
(* The server *)

\* The collections a complete pass over the stored directives derives; those of a
\* ledger that was never loaded are empty.
Derived == IF entry = "" THEN EmptyData ELSE ProcessResult(EmptyData, directives)

\* The reload handler is between the first and the last write of a load.
Rebuilding == pc[Reloader] \in {"clear", "second", "third"}

\* C1: a read-only query holds its read guard only while no reload is rebuilding, and
\* everything it has read, and everything it can still read, is the complete outcome
\* of one load: never cleared or partly rebuilt collections, never a mix of two loads.
C1_QueriesSeeWholeLoads ==
    \A r \in Readers :
        pc[r] \in {"reading", "half", "full"} =>
            /\ ~Rebuilding
            /\ data = Derived
            /\ IsSome(local[r].accounts) => Unwrap(local[r].accounts) = Derived.accounts
            /\ IsSome(local[r].collections) =>
                  Unwrap(local[r].collections) =
                      [transactions |-> Derived.transactions,
                       balances |-> Derived.balances, pads |-> Derived.pads]

\* C1's case: a query has arrived while a reload, holding the write lock, has cleared
\* the collections of a loaded ledger and not yet rebuilt them.
C1_Witness ==
    /\ lock.writer = Some(Reloader)
    /\ pc[Reloader] = "second"
    /\ stable.data.transactions # <<>>
    /\ data = EmptyData
    /\ \E r \in Readers : pc[r] = "pending"

\* C2: when load or reload has returned an error, the directive list, the entry path
\* and the derived collections are those the call found.
C2_FailedLoadChangesNothing ==
    outcome = Some("err") =>
        /\ stable.taken
        /\ entry = stable.entry
        /\ directives = stable.directives
        /\ data = stable.data

\* C2's case: a reload of a loaded ledger has failed on an unreadable included file.
C2_Witness ==
    /\ pc[Reloader] = "respond"
    /\ outcome = Some("err")
    /\ data.transactions # <<>>
    /\ fs[MainPath].readable
    /\ \E i \in 1..Len(fs[MainPath].content) : fs[MainPath].content[i] = Include(IncPath)
    /\ fs[IncPath] = Unreadable

\* C3: a set-time-context request does not wait for a reload: it is never pending
\* while the reload handler holds the ledger's lock.
C3_SetTimeDoesNotWait ==
    ~(pc[TimeSetter] = "pending" /\ lock.writer = Some(Reloader))

\* C7: whenever no load is rebuilding, the collections of a loaded ledger are exactly
\* those derived from the stored directive list: one transaction per Transaction
\* directive and per Pad directive, one balance entry per Balance directive, one pad
\* entry per Pad directive, one account per account opened.
C7_DerivedFromLatestLoad ==
    (entry # "" /\ ~Rebuilding) =>
        /\ data = Derived
        /\ Len(data.transactions)
              = Cardinality(DirectiveIndices("txn")) + Cardinality(DirectiveIndices("pad"))
        /\ Len(data.balances) = Cardinality(DirectiveIndices("balance"))
        /\ Len(data.pads) = Cardinality(DirectiveIndices("pad"))
        /\ Len(data.accounts)
              = Cardinality({directives[i].data.account : i \in DirectiveIndices("open")})
        /\ \A i, j \in 1..Len(data.accounts) :
              data.accounts[i].name = data.accounts[j].name => i = j

\* C7's case: a reload has succeeded on a ledger that held other transactions.
C7_Witness ==
    /\ pc[Reloader] = "respond"
    /\ outcome = Some("ok")
    /\ stable.data.transactions # <<>>
    /\ data.transactions # <<>>
    /\ stable.directives # directives

-----------------------------------------------------------------------------
(* Transactions, accounts and balance history after a load *)

\* A transaction whose postings all carry an amount, in one currency, unpriced.
ExplicitOneCurrency(tx) ==
    /\ Omitted(tx) = {}
    /\ \A j, k \in 1..Len(tx.postings) :
          /\ tx.postings[j].currency = tx.postings[k].currency
          /\ ~IsSome(Unwrap(tx.postings[j].amount).price)

\* C11: every transaction the ledger holds after a load obeys double entry: at
\* most one posting omits its amount, and when every amount is explicit and in
\* one currency the amounts sum to zero.
C11_DoubleEntryHolds ==
    Loaded =>
        \A i \in 1..Len(data.transactions) :
            LET tx == data.transactions[i]
            IN  /\ Cardinality(Omitted(tx)) <= 1
                /\ ExplicitOneCurrency(tx) =>
                       SumSeq([j \in 1..Len(tx.postings) |->
                                  Unwrap(tx.postings[j].amount).units]) = 0

\* The worked example: Assets:X asserted at 100 on date 1 and at 150 on date 3,
\* one pad of Assets:X from Income:Gift on date 2, and nothing else.
FiftyExample ==
    {Balance(AssetsX, 1, 100000), Pad(AssetsX, IncomeGift, 2), Balance(AssetsX, 3, 150000)}

\* The accounts and amounts a transaction posts, as a set of pairs.
PostedPairs(tx) ==
    {<<tx.postings[j].account, tx.postings[j].amount>> : j \in 1..Len(tx.postings)}

\* C12: on the worked example, in whatever order the three directives stand in
\* the file, the padding amount is 50: the one synthetic transaction carries +50
\* on Assets:X and -50 on Income:Gift.
C12_PadOfFifty ==
    (Loaded /\ Len(input.dirs) = 3 /\ Range(input.dirs) = FiftyExample) =>
        /\ Len(SyntheticTransactions) = 1
        /\ Len(data.transactions) = 1
        /\ PostedPairs(SyntheticTransactions[1])
              = {<<AssetsX, Some([units |-> 50000, price |-> None])>>,
                 <<IncomeGift, Some([units |-> -50000, price |-> None])>>}

\* C12's case: the example has been loaded in date order.
C12_Witness ==
    /\ Loaded
    /\ input.dirs = <<Balance(AssetsX, 1, 100000), Pad(AssetsX, IncomeGift, 2),
                      Balance(AssetsX, 3, 150000)>>
    /\ Len(SyntheticTransactions) = 1

-----------------------------------------------------------------------------
(* The reports *)

\* The directives a Time Context leaves in: Open and Close shape the account list
\* and stay; a dated Balance, Pad or Transaction stays when its date is inside.
WithinContext(dirs, ctx) ==
    SelectSeq(dirs, LAMBDA sd :
        sd.data.kind \in {"balance", "pad", "txn"} => Contains(ctx, sd.data.date))

\* The ledger as it would be had the file held only the directives inside.
LedgerWithin(ctx) == ProcessResult(EmptyData, WithinContext(directives, ctx))

\* What a fresh answer of a report must be for the reports to respect the
\* context: the report on the ledger without the directives dated outside.
RespectsContext(r) ==
    /\ r.method = "balance_report" =>
           r.value = BalanceReport(LedgerWithin(time_context), AllTime)
    /\ r.method = "income_expense_report" =>
           LET within == IncomeExpenseReport(LedgerWithin(time_context), AllTime)
           IN  /\ r.value.income_entries = within.income_entries
               /\ r.value.expense_entries = within.expense_entries
               /\ r.value.total_income = within.total_income
               /\ r.value.total_expenses = within.total_expenses
               /\ r.value.net_income = within.net_income

\* C13: both reports respect the Time Context: what is dated outside its
\* inclusive range contributes to neither, so every report answered on a loaded
\* ledger equals the report on the ledger without those directives.
C13_ReportsRespectContext ==
    [][(Loaded /\ IsSome(result') /\ UNCHANGED <<data, time_context>>)
          => RespectsContext(Unwrap(result'))]_vars

-----------------------------------------------------------------------------
(* Queries before the first load *)

\* C14: a query on a ledger that has not been loaded reports the Not-Loaded
\* condition.
C14_QueriesReportNotLoaded ==
    (~Loaded /\ IsSome(result)) => Unwrap(result).error = Some("NotLoaded")

-----------------------------------------------------------------------------
(* Account lifecycles *)

\* The dates of the Close directives naming an account.
CloseDates(name) ==
    {directives[k].data.date :
        k \in {c \in DirectiveIndices("close") : directives[c].data.account = name}}

\* C15: after a load an account is Closed, with the date of a Close directive as
\* its close date, exactly when the directive list holds a Close directive for
\* its name; otherwise it is Open and has no close date.
C15_ClosedIffCloseDirective ==
    Loaded =>
        \A i \in 1..Len(data.accounts) :
            LET a == data.accounts[i]
            IN  IF CloseDates(a.name) # {}
                THEN /\ a.status = "Closed"
                     /\ IsSome(a.close_date)
                     /\ Unwrap(a.close_date) \in CloseDates(a.name)
                ELSE a.status = "Open" /\ a.close_date = None

\* The Open directives naming an account, as indices into the directive list.
OpenIndices(name) ==
    {i \in DirectiveIndices("open") : directives[i].data.account = name}

\* C20: the ledger holds one account per name opened and no other; its type (that
\* of its name), its currency and its open date are those of the first Open
\* directive naming it, whatever later Open directives say.
C20_FirstOpenWins ==
    Loaded =>
        /\ {data.accounts[i].name : i \in 1..Len(data.accounts)}
              = {directives[i].data.account : i \in DirectiveIndices("open")}
        /\ \A i, j \in 1..Len(data.accounts) :
              data.accounts[i].name = data.accounts[j].name => i = j
        /\ \A i \in 1..Len(data.accounts) :
              LET a == data.accounts[i]
                  first == directives[MinOf(OpenIndices(a.name))].data
              IN  /\ a.account_type = ParseAccountType(a.name)
                  /\ a.open_date = Some(first.date)
                  /\ a.currency = IF first.currencies = <<>> THEN None
                                  ELSE Some(first.currencies[1])

\* C20's case: an account was opened twice, the second time with another date
\* and another first currency.
C20_Witness ==
    /\ Loaded
    /\ \E i, j \in OpenIndices(AssetsX) :
          /\ i < j
          /\ directives[i].data.date # directives[j].data.date
          /\ directives[i].data.currencies[1] # directives[j].data.currencies[1]
    /\ \E k \in 1..Len(data.accounts) : data.accounts[k].name = AssetsX

-----------------------------------------------------------------------------
(* The balance history *)

\* The Balance directives of the stored list, in directive order.
BalanceDirectives == SelectSeq(directives, LAMBDA sd : sd.data.kind = "balance")

\* C16: the balance history holds exactly one entry per Balance directive, in
\* directive order, each carrying the directive's account, amount, currency and
\* date, whether or not the directive replaced the account's snapshot.
C16_HistoryMirrorsDirectives ==
    Loaded =>
        /\ Len(data.balances) = Len(BalanceDirectives)
        /\ \A i \in 1..Len(data.balances) :
              LET b == BalanceDirectives[i].data
              IN  data.balances[i] = [account |-> b.account, amount |-> b.amount,
                                      currency |-> b.currency, date |-> b.date]

\* C16's case: the last entry of the history is dated before the snapshot the
\* account holds, and carries another amount.
C16_Witness ==
    /\ Loaded
    /\ Len(data.accounts) = 1
    /\ IsSome(data.accounts[1].balance)
    /\ Len(data.balances) = 2
    /\ data.balances[2].date < Unwrap(data.accounts[1].balance).date
    /\ data.balances[2].amount # Unwrap(data.accounts[1].balance).amount

-----------------------------------------------------------------------------
(* Transaction identifiers across reloads *)

\* The transactions that came from Transaction directives.
ParsedTransactions(d) == SelectSeq(d.transactions, LAMBDA t : t.id.prefix = "txn")

\* The same canonical text: date, payee, narration and, posting by posting, the
\* account and the amount with its currency (every flag of the model is "*").
SameText(t, u) ==
    /\ t.date = u.date
    /\ t.payee = u.payee
    /\ t.narration = u.narration
    /\ Len(t.postings) = Len(u.postings)
    /\ \A j \in 1..Len(t.postings) :
          /\ t.postings[j].account = u.postings[j].account
          /\ AmountValue(t.postings[j]) = AmountValue(u.postings[j])
          /\ t.postings[j].currency = u.postings[j].currency

-----------------------------------------------------------------------------
(* The frame of the queries *)

\* A step that answers a query: it leaves an answer and is not a load.
AnswersQuery == IsSome(result') /\ outcome' = outcome

\* C18: no query or report changes the accounts, the transactions, the balance
\* history, the pads or the Time Context (nor the stored directives).
C18_QueriesChangeNothing ==
    [][AnswersQuery => UNCHANGED <<data, time_context, directives, entry>>]_vars

\* C18's case: a search has answered with a transaction of a loaded ledger that
\* is under a custom Time Context.
C18_Witness ==
    /\ Loaded
    /\ time_context.range = "Custom"
    /\ IsSome(result)
    /\ Unwrap(result).method = "search_transactions"
    /\ Unwrap(result).value # <<>>
    /\ data.transactions # <<>>

-----------------------------------------------------------------------------
(* The value of a priced posting *)

\* The postings of a transaction to an account, as indices.
PostingsTo(tx, name) == {j \in 1..Len(tx.postings) : tx.postings[j].account = name}

\* C19: for a posting with a price in another currency the total value is the
\* signed units times the price, so a negative posting has a negative value; seen
\* on the row of a transaction whose one posting to the account is such a posting.
C19_TotalValueSigned ==
    (IsSome(result) /\ Unwrap(result).handler = "list") =>
        \A k \in 1..Len(Unwrap(result).rows) :
            LET r == Unwrap(result)
                row == r.rows[k]
                tx == RowTransaction(r, row)
                j == CHOOSE x \in PostingsTo(tx, r.account) : TRUE
                p == tx.postings[j]
            IN  (/\ row.origin[1] = "transaction"
                 /\ Cardinality(PostingsTo(tx, r.account)) = 1
                 /\ IsSome(PriceInfo(p))
                 /\ p.currency # Unwrap(PriceInfo(p)).currency)
                => /\ TotalValue(p, "CNY")
                        = (Unwrap(AmountValue(p)) * Unwrap(PriceInfo(p)).amount) \div 1000
                   /\ row.posting_amount = TotalValue(p, "CNY")

-----------------------------------------------------------------------------
(* The parser on malformed text *)

\* The lines of the text parsed.
TextOf == input.dirs

\* Line i is swallowed by a transaction or commodity block that starts above it.
InBlock(i) ==
    /\ TextOf[i].indent
    /\ \E h \in 1..(i - 1) :
          /\ TextOf[h].form = "dated"
          /\ TextOf[h].keyword \in {"*", "commodity"}
          /\ \A k \in (h + 1)..i : TextOf[k].indent

\* The kind of the directive a well-formed line stands for, "" for a line that
\* matches no directive shape.
ShapeOf(line) ==
    CASE line.form = "dated" /\ line.keyword = "*" -> "txn"
      [] line.form = "dated" /\ line.keyword = "commodity" -> "commodity"
      [] line.form = "dated" /\ line.keyword = "open" /\ line.parts >= 2 -> "open"
      [] line.form = "dated" /\ line.keyword = "close" /\ line.parts >= 2 -> "close"
      [] line.form = "dated" /\ line.keyword = "balance" /\ line.parts >= 4 -> "balance"
      [] line.form = "dated" /\ line.keyword = "pad" /\ line.parts >= 3 -> "pad"
      [] line.form = "plain" /\ ~line.indent /\ line.keyword = "include" -> "include"
      [] OTHER -> ""

\* The directives the parse gave for line i.
DirectivesAt(ds, i) == SelectSeq(ds, LAMBDA sd : sd.span = i)

\* C21: parsing any text returns a directive list and never an error: a line that
\* matches no directive shape becomes a Comment or is dropped, every well-formed
\* line outside a block, before or after it, yields its directive, and the
\* directives come in line order.
C21_ParseNeverFails ==
    IsSome(result) =>
        LET r == Unwrap(result)
        IN  /\ r.ok
            /\ \A k \in 1..(Len(r.directives) - 1) :
                  r.directives[k].span < r.directives[k + 1].span
            /\ \A i \in 1..Len(TextOf) :
                  LET at == DirectivesAt(r.directives, i)
                  IN  IF InBlock(i) THEN at = <<>>
                      ELSE IF ShapeOf(TextOf[i]) # ""
                      THEN Len(at) = 1 /\ at[1].data.kind = ShapeOf(TextOf[i])
                      ELSE at = <<>> \/ (Len(at) = 1 /\ at[1].data.kind = "comment")

\* C21's case: a well-formed directive has been read after a line that matches
\* no directive shape and produced nothing.
C21_Witness ==
    /\ IsSome(result)
    /\ \E i, j \in 1..Len(TextOf) :
          /\ i < j
          /\ TextOf[i].keyword = "junk"
          /\ DirectivesAt(Unwrap(result).directives, i) = <<>>
          /\ ShapeOf(TextOf[j]) = "balance"
          /\ DirectivesAt(Unwrap(result).directives, j) # <<>>

-----------------------------------------------------------------------------
(* The handlers that write and reload *)

\* C22: a file-save request whose disk write succeeded eventually gets the
\* write lock, reloads, releases and answers, and a read-only query that asked
\* for the lock is eventually served.
C22_SaveEventuallyAnswers ==
    /\ (pc[Saver] = "awaiting") ~> (pc[Saver] = "idle")
    /\ (pc[Asker] = "pending") ~> (pc[Asker] = "holding")

\* C28: whenever a handler answers that the ledger has been reloaded, the
\* reload it ran returned Ok.
C28_ReloadedMeansReloaded ==
    (IsSome(result) /\ Unwrap(result).message = "saved, ledger reloaded")
        => Unwrap(result).reload = "ok"

-----------------------------------------------------------------------------
(* The balance of the account page and the rows of its list *)

\* The rows of the whole list of an account, newest first.
AllRows(account_name) ==
    RenderAccountTransactionsPaginated(TransactionsByAccount(data, account_name),
                                       BalancesByAccount(data, account_name),
                                       account_name, DefaultLimit, 0)

\* C23: the balance calculate_correct_balance returns for an account is the
\* running balance of the newest row render_account_transactions_paginated shows.
C23_PageBalanceIsNewestRow ==
    Loaded =>
        \A account_name \in ViewAccounts :
            (FindAccount(data.accounts, account_name) # 0 /\ AllRows(account_name) # <<>>)
                => CalculateCorrectBalance(TransactionsByAccount(data, account_name),
                                           BalancesByAccount(data, account_name),
                                           account_name)
                   = AllRows(account_name)[1].running_balance

\* C24: in the timeline a Balance event comes before every Transaction or Pad
\* event of its date; the rows being newest first, no Balance row stands above a
\* Transaction or Pad row of the same date.
C24_BalanceAtStartOfDay ==
    Loaded =>
        \A account_name \in ViewAccounts :
            \A i \in 1..Len(AllRows(account_name)) :
                \A j \in (i + 1)..Len(AllRows(account_name)) :
                    (/\ AllRows(account_name)[i].item_type = "Balance"
                     /\ AllRows(account_name)[j].date = AllRows(account_name)[i].date)
                        => AllRows(account_name)[j].item_type = "Balance"

-----------------------------------------------------------------------------
(* The size of a pad *)

\* The Balance directives of the padded account dated on or after the pad with
\* no earlier one among them, and those dated before the pad with no later one.
BalancesOf(name) == {directives[i].data : i \in BalanceIndices(name)}

NextBalances(pad) ==
    LET after == {b \in BalancesOf(pad.account) : b.date >= pad.date}
    IN  {b \in after : \A c \in after : b.date <= c.date}

PreviousBalances(pad) ==
    LET before == {b \in BalancesOf(pad.account) : b.date < pad.date}
    IN  {b \in before : \A c \in before : c.date <= b.date}

\* What the transactions that no pad synthesized post to an account strictly
\* between two dates.
PostedBetween(name, from, to) ==
    SumSeq([i \in 1..Len(data.transactions) |->
               IF /\ data.transactions[i].id.prefix # "pad"
                  /\ data.transactions[i].date > from
                  /\ data.transactions[i].date < to
               THEN PostedTo(data.transactions[i], name) ELSE 0])

\* C25: a pad from an Income or Expenses account puts on its first-named account
\* the amount of that account's next Balance, minus the amount of its Balance
\* immediately before the pad, minus what the other transactions post to it
\* strictly between the two Balance dates.
C25_IncomePadAmount ==
    Loaded =>
        \A k \in 1..Len(PadDirectives) :
            LET pad == PadDirectives[k].data
            IN  (/\ IsIncomeOrExpenseName(pad.pad)
                 /\ NextBalances(pad) # {}
                 /\ PreviousBalances(pad) # {})
                    => \E next \in NextBalances(pad), prev \in PreviousBalances(pad) :
                          SyntheticTransactions[k].postings[1].amount
                            = Some([units |-> FormatF2(next.amount - prev.amount
                                                - PostedBetween(pad.account, prev.date,
                                                                next.date)),
                                    price |-> None])

\* C26: the Balance that sizes a pad from an account that is neither Income nor
\* Expenses is the earliest-dated Balance of the padded account on or after the
\* pad, wherever it stands in the file: the pad's second posting carries its
\* amount.
C26_NextBalanceByDate ==
    Loaded =>
        \A k \in 1..Len(PadDirectives) :
            LET pad == PadDirectives[k].data
            IN  (~IsIncomeOrExpenseName(pad.pad) /\ NextBalances(pad) # {})
                    => \E next \in NextBalances(pad) :
                          SyntheticTransactions[k].postings[2].amount
                            = Some([units |-> FormatF2(next.amount), price |-> None])

-----------------------------------------------------------------------------
(* The identifiers of the transactions *)

\* C27: after a load no two transactions of the ledger, parsed or synthesized
\* from a pad, share an identifier: asking for the identifier of any of them
\* returns that transaction.
C27_IdentifiersUnique ==
    Loaded =>
        \A i \in 1..Len(data.transactions) :
            TransactionById(data, data.transactions[i].id) = Some(data.transactions[i])

-----------------------------------------------------------------------------
(* Includes that form a cycle *)

\* The paths a readable file includes that exist.
IncludedBy(path) ==
    IF fs[path].exists /\ fs[path].readable
    THEN {d.path : d \in {x \in Range(fs[path].content) :
                             x.kind = "include" /\ fs[x.path].exists}}
    ELSE {}

\* The files the entry file reaches through includes, itself among them.
ReachedFrom(S) == S \cup UNION {IncludedBy(p) : p \in S}
ReachedFiles == ReachedFrom(ReachedFrom({entry}))

\* The include graph of the ledger has a cycle: some reached file reaches itself.
IncludeCycle ==
    \E p \in ReachedFiles :
        p \in ReachedFrom(IncludedBy(p))

\* What the expansion of a file's includes meets first, going through the
\* directives in order with the calls in progress in mind: a file already being
\* parsed ("cycle"), a file that cannot be read ("error"), or neither ("done").
RECURSIVE Meets(_, _)
RECURSIVE MeetsIn(_, _)
MeetsIn(dirs, inProgress) ==
    IF dirs = <<>> THEN "done"
    ELSE LET d == Head(dirs)
             first == IF d.kind = "include" /\ fs[d.path].exists
                      THEN IF d.path \in inProgress THEN "cycle"
                           ELSE Meets(d.path, inProgress \cup {d.path})
                      ELSE "done"
         IN  IF first = "done" THEN MeetsIn(Tail(dirs), inProgress) ELSE first

Meets(path, inProgress) ==
    IF ~(fs[path].exists /\ fs[path].readable) THEN "error"
    ELSE MeetsIn(fs[path].content, inProgress)

\* C29 as stated: when the include graph has a cycle, parse_file never returns.
C29_CycleNeverReturns == IncludeCycle => result = None

\* C29, amended: when the expansion of the includes comes back to a file whose
\* parse is in progress before it meets a file that cannot be read, parse_file
\* never returns; no record of the files visited stops the recursion.
C29_ReachedCycleNeverReturns ==
    Meets(entry, {entry}) = "cycle" => result = None

\* C29's case: the parse is inside a file for the second time.
C29_Witness ==
    /\ Meets(entry, {entry}) = "cycle"
    /\ \E i, j \in 1..Len(local) : i < j /\ local[i].path = local[j].path

-----------------------------------------------------------------------------
(* Month ranges *)

\* The month a month range stands for: the clock's month under the rolling Month
\* context, the month asked for after a month selection.
MonthInForce ==
    IF time_context.range = "Month"
    THEN [year |-> input.today.year, month |-> input.today.month]
    ELSE Unwrap(local)

\* C30: whatever the clock's date and the month, a month range starts on the
\* first and ends on the last day of its month, and contains every day of it.
C30_MonthRangeWhole ==
    (time_context.range = "Month" \/ (time_context.range = "Custom" /\ IsSome(local)))
        => LET year == MonthInForce.year
               month == MonthInForce.month
           IN  /\ ClockStartDate(time_context, input.today) = Some(Ymd(year, month, 1))
               /\ ClockEndDate(time_context, input.today)
                     = Some(Ymd(year, month, DaysInMonth(year, month)))
               /\ \A day \in 1..DaysInMonth(year, month) :
                     ClockContains(time_context, input.today, Ymd(year, month, day))

=============================================================================